---- MODULE Spec2Model ----
(***************************************************************************)
(* A model of swagger-to-playwright-api-clients: the naming utilities,     *)
(* the path utilities, SwaggerParser, TypeGenerator, ClientGenerator and   *)
(* SwaggerGenerator.generate.                                              *)
(*                                                                         *)
(* A JavaScript string is a sequence of one-character strings, so that the *)
(* regular-expression replacements of the source are computed character by *)
(* character.  A JavaScript Map is a sequence of entries in insertion      *)
(* order.  An absent (undefined) string is None.                           *)
(***************************************************************************)
EXTENDS Integers, Sequences, FiniteSets, TLC

VARIABLES
    pc,             \* position of the run that the specification models
    path,           \* naming: the path or the string a naming function is applied to
    serviceName,    \* naming / generate: the service name
    method,         \* naming: the HTTP method a naming function is applied to
    folders,        \* naming: determineFolderStructure's result
    names,          \* naming: the derived resource, type and function names
    typeGenerator,  \* TypeGenerator: [typeDefinitions, generatedTypes]
    options,        \* generate: the GeneratorOptions (serviceName)
    document,       \* generate: the SwaggerDocument
    schemas,        \* generate: the parser's schema index (a Map)
    endpoints,      \* generate: parser.parseEndpoints()
    groups,         \* generate: groupEndpointsByFolder(...), in Map order
    modules,        \* generate: per group, the types and the client emitted
    result,         \* generate: the GeneratorResult
    config,         \* runGenerator: the AutomationConfig
    run,            \* runGenerator: activeSources, the settled promises, results
    previous,       \* generate, called twice: the output of the first call, if any
    rendering,      \* parseSchema: the schema and the calls that are still to be made
    fileWriter,     \* generate: the FileWriter, its queued files and those written
    entryPoint      \* generate: the entry point called and what its source yields

vars == <<pc, path, serviceName, method, folders, names, typeGenerator,
          options, document, schemas, endpoints, groups, modules, result,
          config, run, previous, rendering, fileWriter, entryPoint>>

\* the variables that generate and the naming functions leave alone: those of
\* runGenerator, the output of an earlier call of generate, the calls of
\* parseSchema and the entry point
runVars == <<config, run, previous, rendering, entryPoint>>

\* the variables of SwaggerGenerator.generate
generateVars == <<options, document, schemas, endpoints, groups, modules, result>>

\* undefined, where a string is expected: a string that no string of characters equals
None == <<"<undefined>">>

-----------------------------------------------------------------------------
(* Characters and strings                                                  *)

LowerLetters ==
    <<"a","b","c","d","e","f","g","h","i","j","k","l","m",
      "n","o","p","q","r","s","t","u","v","w","x","y","z">>

UpperLetters ==
    <<"A","B","C","D","E","F","G","H","I","J","K","L","M",
      "N","O","P","Q","R","S","T","U","V","W","X","Y","Z">>

Digits == {"0","1","2","3","4","5","6","7","8","9"}

Range(s) == {s[i] : i \in DOMAIN s}

\* String.prototype.toUpperCase on one character
toUpperCaseChar(c) ==
    IF \E i \in DOMAIN LowerLetters : LowerLetters[i] = c
    THEN UpperLetters[CHOOSE i \in DOMAIN LowerLetters : LowerLetters[i] = c]
    ELSE c

\* String.prototype.toLowerCase on one character
toLowerCaseChar(c) ==
    IF \E i \in DOMAIN UpperLetters : UpperLetters[i] = c
    THEN LowerLetters[CHOOSE i \in DOMAIN UpperLetters : UpperLetters[i] = c]
    ELSE c

toLowerCase(s) == [i \in DOMAIN s |-> toLowerCaseChar(s[i])]

\* the character class [-_\s]
IsSeparator(c) == c \in {"-", "_", " ", "\t", "\n", "\r"}

\* the character class [a-zA-Z0-9]
IsAlphaNumeric(c) == c \in Range(LowerLetters) \cup Range(UpperLetters) \cup Digits

\* the character class \s
IsWhitespace(c) == c \in {" ", "\t", "\n", "\r"}

DigitChars == <<"0","1","2","3","4","5","6","7","8","9">>

RECURSIVE NumberToString(_)
\* `${counter}` for a counter >= 0
NumberToString(n) ==
    IF n < 10 THEN <<DigitChars[n + 1]>>
    ELSE NumberToString(n \div 10) \o <<DigitChars[(n % 10) + 1]>>

RECURSIVE Concat(_)
\* Array.prototype.join('') of a sequence of strings
Concat(ss) == IF ss = <<>> THEN <<>> ELSE Head(ss) \o Concat(Tail(ss))

RECURSIVE Join(_, _)
\* Array.prototype.join(sep)
Join(ss, sep) ==
    IF ss = <<>> THEN <<>>
    ELSE IF Len(ss) = 1 THEN ss[1]
    ELSE ss[1] \o sep \o Join(Tail(ss), sep)

RECURSIVE SplitFrom(_, _, _)
SplitFrom(s, c, cur) ==
    IF s = <<>> THEN <<cur>>
    ELSE IF Head(s) = c THEN <<cur>> \o SplitFrom(Tail(s), c, <<>>)
    ELSE SplitFrom(Tail(s), c, Append(cur, Head(s)))

\* String.prototype.split(c) for a one-character separator
Split(s, c) == SplitFrom(s, c, <<>>)

startsWith(s, p) == Len(s) >= Len(p) /\ SubSeq(s, 1, Len(p)) = p

endsWith(s, p) == Len(s) >= Len(p) /\ SubSeq(s, Len(s) - Len(p) + 1, Len(s)) = p

\* String.prototype.includes
includes(s, p) == \E i \in 1..(Len(s) - Len(p) + 1) : SubSeq(s, i, i + Len(p) - 1) = p

\* Array.prototype.includes
arrayIncludes(a, x) == \E i \in DOMAIN a : a[i] = x

\* Array.prototype.slice(-n)
sliceLast(a, n) == IF Len(a) <= n THEN a ELSE SubSeq(a, Len(a) - n + 1, Len(a))

-----------------------------------------------------------------------------
(* utils/naming                                                            *)

RECURSIVE DropSeparators(_)
DropSeparators(s) ==
    IF s # <<>> /\ IsSeparator(Head(s)) THEN DropSeparators(Tail(s)) ELSE s

RECURSIVE ReplaceSeparators(_)
\* .replace(/[-_\s]+(.)?/g, (_, char) => (char ? char.toUpperCase() : ''))
ReplaceSeparators(s) ==
    IF s = <<>> THEN <<>>
    ELSE IF IsSeparator(Head(s))
    THEN LET rest == DropSeparators(s)
         IN  IF rest = <<>> THEN <<>>
             ELSE <<toUpperCaseChar(Head(rest))>> \o ReplaceSeparators(Tail(rest))
    ELSE <<Head(s)>> \o ReplaceSeparators(Tail(s))

\* .replace(/^(.)/, (char) => char.toUpperCase())
UpperFirst(s) == IF s = <<>> THEN <<>> ELSE <<toUpperCaseChar(Head(s))>> \o Tail(s)

\* .replace(/[^a-zA-Z0-9]/g, '')
StripNonAlphaNumeric(s) == SelectSeq(s, IsAlphaNumeric)

\* PascalCase that lower-cases its input before it capitalises the words
toPascalCaseLowering(str) ==
    StripNonAlphaNumeric(UpperFirst(ReplaceSeparators(toLowerCase(str))))

toPascalCase(str) == StripNonAlphaNumeric(UpperFirst(ReplaceSeparators(str)))

toCamelCase(str) ==
    LET pascal == toPascalCase(str)
    IN  IF pascal = <<>> THEN <<>> ELSE <<toLowerCaseChar(Head(pascal))>> \o Tail(pascal)

\* .replace(/[{}]/g, '')
StripBraces(s) == SelectSeq(s, LAMBDA c : c \notin {"{", "}"})

pathParamToByFormat(param) == <<"B", "y">> \o toPascalCase(StripBraces(param))

Request == <<"R","e","q","u","e","s","t">>
Response == <<"R","e","s","p","o","n","s","e">>

generateTypeName(m, resourceName, pathParams, suffix) ==
    toLowerCase(m) \o toPascalCase(resourceName)
        \o Concat([i \in DOMAIN pathParams |-> pathParamToByFormat(pathParams[i])]) \o suffix

generateFunctionName(m, resourceName, pathParams) ==
    toLowerCase(m) \o toPascalCase(resourceName)
        \o Concat([i \in DOMAIN pathParams |-> pathParamToByFormat(pathParams[i])])

\* the prefixes ['api', 'v1', 'v2', 'v3']
CommonPrefixes ==
    { <<"a","p","i">>, <<"v","1">>, <<"v","2">>, <<"v","3">> }

\* path.split('/').filter((s) => s && !s.startsWith('{') && !s.endsWith('}'))
PathSegments(p) ==
    SelectSeq(Split(p, "/"),
              LAMBDA s : s # <<>> /\ ~startsWith(s, <<"{">>) /\ ~endsWith(s, <<"}">>))

\* segments.filter((s) => !['api', 'v1', 'v2', 'v3'].includes(s.toLowerCase()))
FilteredSegments(p) ==
    SelectSeq(PathSegments(p), LAMBDA s : toLowerCase(s) \notin CommonPrefixes)

Root == <<"R","o","o","t">>

extractResourceName(p) ==
    LET filteredSegments == FilteredSegments(p)
    IN  IF Len(filteredSegments) = 0 THEN Root
        ELSE LET relevantSegments == sliceLast(filteredSegments, 3)
             IN  Concat([i \in DOMAIN relevantSegments |-> toPascalCase(relevantSegments[i])])

RECURSIVE IndexOfFrom(_, _, _)
\* the least index i >= from with s[i] = c, or 0
IndexOfFrom(s, c, from) ==
    IF from > Len(s) THEN 0
    ELSE IF s[from] = c THEN from ELSE IndexOfFrom(s, c, from + 1)

RECURSIVE MatchBraces(_, _)
\* path.match(/\{([^}]+)\}/g), scanning from index i
MatchBraces(p, i) ==
    IF i > Len(p) THEN <<>>
    ELSE IF p[i] = "{"
    THEN LET j == IndexOfFrom(p, "}", i + 1)
         IN  IF j > i + 1
             THEN <<SubSeq(p, i, j)>> \o MatchBraces(p, j + 1)
             ELSE MatchBraces(p, i + 1)
    ELSE MatchBraces(p, i + 1)

extractPathParams(p) ==
    LET matches == MatchBraces(p, 1)
    IN  [i \in DOMAIN matches |-> StripBraces(matches[i])]

-----------------------------------------------------------------------------
(* utils/pathUtils                                                         *)

Therapist == <<"T","h","e","r","a","p","i","s","t">>
therapist == <<"t","h","e","r","a","p","i","s","t">>

determineFolderStructure(p, service) ==
    LET filtered == FilteredSegments(p)
        base == <<toPascalCase(service)>>
        withTherapist ==
            IF \E i \in DOMAIN filtered : includes(toLowerCase(filtered[i]), therapist)
            THEN Append(base, Therapist)
            ELSE base
        groupSegment == filtered[1]
    IN  IF Len(filtered) <= 1 THEN Append(base, Root)
        ELSE IF ~arrayIncludes(withTherapist, toPascalCase(groupSegment))
                /\ toLowerCase(groupSegment) # therapist
        THEN Append(withTherapist, toPascalCase(groupSegment))
        ELSE withTherapist

RECURSIVE ReplaceBraces(_, _)
\* path.replace(/\{([^}]+)\}/g, '${$1}')
ReplaceBraces(p, i) ==
    IF i > Len(p) THEN <<>>
    ELSE IF p[i] = "{"
    THEN LET j == IndexOfFrom(p, "}", i + 1)
         IN  IF j > i + 1
             THEN <<"$", "{">> \o SubSeq(p, i + 1, j - 1) \o <<"}">> \o ReplaceBraces(p, j + 1)
             ELSE <<p[i]>> \o ReplaceBraces(p, i + 1)
    ELSE <<p[i]>> \o ReplaceBraces(p, i + 1)

\* the template-literal quote (U+0060), which the lexer does not take in a string
Backtick == "<backtick>"

generatePathTemplate(p) ==
    IF ~arrayIncludes(p, "{") THEN <<"'">> \o p \o <<"'">>
    ELSE <<Backtick>> \o ReplaceBraces(p, 1) \o <<Backtick>>


-----------------------------------------------------------------------------
(* Map: a sequence of [key, value] entries in insertion order              *)

MapHas(m, k) == \E i \in DOMAIN m : m[i].key = k

\* Map.prototype.get: undefined when the key is absent
MapGet(m, k) ==
    IF MapHas(m, k) THEN m[CHOOSE i \in DOMAIN m : m[i].key = k].value ELSE None

\* Map.prototype.set: a present key keeps its position
MapSet(m, k, v) ==
    IF MapHas(m, k)
    THEN [i \in DOMAIN m |-> IF m[i].key = k THEN [key |-> k, value |-> v] ELSE m[i]]
    ELSE Append(m, [key |-> k, value |-> v])

MapKeys(m) == [i \in DOMAIN m |-> m[i].key]

-----------------------------------------------------------------------------
(* SwaggerParser (SwaggerParser.ts)                                        *)
(*                                                                         *)
(* An optional object or array is <<>> when absent and <<value>> when      *)
(* present.  A SchemaObject is a record of all its fields.                 *)

t_string == <<"s","t","r","i","n","g">>
t_integer == <<"i","n","t","e","g","e","r">>
t_number == <<"n","u","m","b","e","r">>
t_boolean == <<"b","o","o","l","e","a","n">>
t_null == <<"n","u","l","l">>
t_file == <<"f","i","l","e">>
t_File == <<"F","i","l","e">>
t_array == <<"a","r","r","a","y">>
t_object == <<"o","b","j","e","c","t">>
t_unknown == <<"u","n","k","n","o","w","n">>
t_any == <<"a","n","y">>
t_RecordUnknown == <<"R","e","c","o","r","d","<","s","t","r","i","n","g",","," ","u","n","k","n","o","w","n",">">>

GET == <<"G","E","T">>
POST == <<"P","O","S","T">>
PUT == <<"P","U","T">>
PATCH == <<"P","A","T","C","H">>
DELETE == <<"D","E","L","E","T","E">>

\* a SchemaObject with no field set: {}
EmptySchema ==
    [type |-> None, ref |-> None, items |-> <<>>, properties |-> <<>>,
     required |-> <<>>, additionalProperties |-> [kind |-> "absent"],
     enum |-> <<>>, nullable |-> FALSE, allOf |-> <<>>, oneOf |-> <<>>, anyOf |-> <<>>]

isSwagger2(doc) == doc.swagger = <<"2",".","0">>

isOpenAPI3(doc) == doc.openapi # None /\ startsWith(doc.openapi, <<"3",".">>)

RECURSIVE RemoveGenericWords(_)
\* title.replace(/api|service/gi, '')
RemoveGenericWords(s) ==
    IF s = <<>> THEN <<>>
    ELSE IF startsWith(toLowerCase(s), <<"a","p","i">>) THEN RemoveGenericWords(SubSeq(s, 4, Len(s)))
    ELSE IF startsWith(toLowerCase(s), <<"s","e","r","v","i","c","e">>) THEN RemoveGenericWords(SubSeq(s, 8, Len(s)))
    ELSE <<Head(s)>> \o RemoveGenericWords(Tail(s))

RECURSIVE TrimStart(_)
TrimStart(s) == IF s # <<>> /\ IsWhitespace(Head(s)) THEN TrimStart(Tail(s)) ELSE s

RECURSIVE TrimEnd(_)
TrimEnd(s) ==
    IF s # <<>> /\ IsWhitespace(s[Len(s)]) THEN TrimEnd(SubSeq(s, 1, Len(s) - 1)) ELSE s

\* String.prototype.trim
Trim(s) == TrimEnd(TrimStart(s))

getServiceName(doc) ==
    LET title == IF doc.title = None \/ doc.title = <<>> THEN <<"A","p","i","S","e","r","v","i","c","e">> ELSE doc.title
    IN  toPascalCase(Trim(RemoveGenericWords(title))) \o <<"S","e","r","v","i","c","e">>

RECURSIVE IndexEntries(_, _, _)
\* the loop of loadSchemas: each entry under its reference path and its bare name
IndexEntries(index, prefix, entries) ==
    IF entries = <<>> THEN index
    ELSE IndexEntries(
            MapSet(MapSet(index, prefix \o entries[1].name, entries[1].schema),
                   entries[1].name, entries[1].schema),
            prefix, Tail(entries))

loadSchemas(doc) ==
    IF isSwagger2(doc) THEN IndexEntries(<<>>, <<"#","/","d","e","f","i","n","i","t","i","o","n","s","/">>, doc.definitions)
    ELSE IF isOpenAPI3(doc) THEN IndexEntries(<<>>, <<"#","/","c","o","m","p","o","n","e","n","t","s","/","s","c","h","e","m","a","s","/">>, doc.components_schemas)
    ELSE <<>>

\* resolveRef(ref) is defined (not undefined)
resolvesRef(index, ref) == MapHas(index, ref)

resolveRef(index, ref) == MapGet(index, ref)

\* the name of a reference taken to be the whole reference
extractRefNameWhole(ref) == ref

extractRefName(ref) == LET parts == Split(ref, "/") IN parts[Len(parts)]

\* typeMap[schema.type || 'unknown'] || 'unknown'
SchemaTypeMap(type) ==
    CASE type = t_string -> t_string
      [] type = t_integer -> t_number
      [] type = t_number -> t_number
      [] type = t_boolean -> t_boolean
      [] type = t_null -> t_null
      [] type = t_file -> t_File
      [] OTHER -> t_unknown

\* schema.enum.map((e) => (typeof e === 'string' ? `'${e}'` : e)).join(' | ')
EnumToTypeScript(enum) ==
    Join([i \in DOMAIN enum |->
            IF enum[i].isString THEN <<"'">> \o enum[i].text \o <<"'">> ELSE enum[i].text],
         <<" ","|"," ">>)

\* a truthy string: neither undefined nor ''
Truthy(s) == s # None /\ s # <<>>

RECURSIVE schemaToTypeScript(_)
RECURSIVE objectSchemaToTypeScript(_)

schemaToTypeScript(schema) ==
    IF Truthy(schema.ref) THEN toPascalCase(extractRefName(schema.ref))
    ELSE IF schema.type = t_array /\ schema.items # <<>>
    THEN schemaToTypeScript(schema.items[1]) \o <<"[","]">>
    ELSE IF schema.enum # <<>> THEN EnumToTypeScript(schema.enum[1])
    ELSE IF schema.allOf # <<>>
    THEN Join([i \in DOMAIN schema.allOf[1] |-> schemaToTypeScript(schema.allOf[1][i])], <<" ","&"," ">>)
    ELSE IF schema.oneOf # <<>> \/ schema.anyOf # <<>>
    THEN LET members == IF schema.oneOf # <<>> THEN schema.oneOf[1] ELSE schema.anyOf[1]
         IN  Join([i \in DOMAIN members |-> schemaToTypeScript(members[i])], <<" ","|"," ">>)
    ELSE IF schema.type = t_object \/ schema.properties # <<>>
    THEN objectSchemaToTypeScript(schema)
    ELSE IF schema.additionalProperties.kind = "boolean" /\ schema.additionalProperties.value
    THEN t_RecordUnknown
    ELSE IF schema.additionalProperties.kind = "schema"
    THEN <<"R","e","c","o","r","d","<","s","t","r","i","n","g",","," ">> \o schemaToTypeScript(schema.additionalProperties.schema) \o <<">">>
    ELSE LET baseType == SchemaTypeMap(schema.type)
         IN  IF schema.nullable THEN baseType \o <<" ","|"," ","n","u","l","l">> ELSE baseType

objectSchemaToTypeScript(schema) ==
    IF schema.properties = <<>>
    THEN IF schema.additionalProperties.kind = "schema"
         THEN <<"R","e","c","o","r","d","<","s","t","r","i","n","g",","," ">> \o schemaToTypeScript(schema.additionalProperties.schema) \o <<">">>
         ELSE t_RecordUnknown
    ELSE LET properties == schema.properties[1]
             prop(i) ==
                LET propName == properties[i].name
                    propSchema == properties[i].schema
                    isRequired == arrayIncludes(schema.required, propName)
                    nullable == IF propSchema.nullable THEN <<" ","|"," ","n","u","l","l">> ELSE <<>>
                    type == schemaToTypeScript(propSchema)
                    safeName == IF \E k \in DOMAIN propName :
                                        ~IsAlphaNumeric(propName[k]) /\ propName[k] \notin {"_", "$"}
                                THEN <<"'">> \o propName \o <<"'">>
                                ELSE propName
                IN  safeName \o (IF isRequired THEN <<>> ELSE <<"?">>) \o <<":"," ">> \o type \o nullable
         IN  <<"{","\n"," "," ">> \o Join([i \in DOMAIN properties |-> prop(i)], <<";","\n"," "," ">>) \o <<"\n","}">>

RECURSIVE parseSchema(_, _, _)
parseSchema(index, schema, defaultName) ==
    IF Truthy(schema.ref)
    THEN LET refName == extractRefName(schema.ref)
         IN  IF resolvesRef(index, schema.ref)
             THEN [typeName |-> toPascalCase(refName),
                   typeDefinition |-> schemaToTypeScript(resolveRef(index, schema.ref))]
             ELSE [typeName |-> toPascalCase(refName),
                   typeDefinition |-> toPascalCase(refName)]
    ELSE IF schema.type = t_array /\ schema.items # <<>>
    THEN LET itemsSchema == parseSchema(index, schema.items[1], defaultName \o <<"I","t","e","m">>)
         IN  [typeName |-> itemsSchema.typeName \o <<"[","]">>,
              typeDefinition |-> itemsSchema.typeDefinition \o <<"[","]">>]
    ELSE IF schema.enum # <<>>
    THEN [typeName |-> defaultName, typeDefinition |-> EnumToTypeScript(schema.enum[1])]
    ELSE IF schema.allOf # <<>>
    THEN [typeName |-> defaultName,
          typeDefinition |->
            Join([i \in DOMAIN schema.allOf[1] |->
                    parseSchema(index, schema.allOf[1][i],
                                defaultName \o <<"A","l","l","O","f">> \o NumberToString(i - 1)).typeDefinition],
                 <<" ","&"," ">>)]
    ELSE IF schema.oneOf # <<>> \/ schema.anyOf # <<>>
    THEN LET members == IF schema.oneOf # <<>> THEN schema.oneOf[1] ELSE schema.anyOf[1]
         IN  [typeName |-> defaultName,
              typeDefinition |->
                Join([i \in DOMAIN members |->
                        parseSchema(index, members[i],
                                    defaultName \o <<"U","n","i","o","n">> \o NumberToString(i - 1)).typeDefinition],
                     <<" ","|"," ">>)]
    ELSE IF schema.type = t_object \/ schema.properties # <<>>
    THEN [typeName |-> defaultName, typeDefinition |-> objectSchemaToTypeScript(schema)]
    ELSE [typeName |-> defaultName, typeDefinition |-> schemaToTypeScript(schema)]

\* typeMap[param.type || 'string'] || 'unknown'
ParameterTypeMap(type) ==
    CASE ~Truthy(type) -> t_string
      [] type = t_string -> t_string
      [] type = t_integer -> t_number
      [] type = t_number -> t_number
      [] type = t_boolean -> t_boolean
      [] type = t_array -> <<"u","n","k","n","o","w","n","[","]">>
      [] type = t_object -> t_RecordUnknown
      [] type = t_file -> t_File
      [] OTHER -> t_unknown

parameterToTypeScript(param) ==
    IF param.schema # <<>> THEN schemaToTypeScript(param.schema[1])
    ELSE IF param.enum # <<>>
    THEN Join([i \in DOMAIN param.enum[1] |-> <<"'">> \o param.enum[1][i] \o <<"'">>], <<" ","|"," ">>)
    ELSE ParameterTypeMap(param.type)

parseParameters(params) ==
    [i \in DOMAIN params |->
        [name |-> params[i].name,
         required |-> params[i].required,
         type |-> parameterToTypeScript(params[i])]]

ApplicationJson == <<"a","p","p","l","i","c","a","t","i","o","n","/","j","s","o","n">>

\* the schema of the first media type only: application/json is not preferred
ContentSchemaOfFirst(content) ==
    IF content # <<>> THEN content[1].schema ELSE <<>>

\* content['application/json']?.schema || Object.values(content)[0]?.schema,
\* as an optional schema
ContentSchema(content) ==
    LET json == SelectSeq(content, LAMBDA e : e.mediaType = ApplicationJson)
    IN  IF json # <<>> /\ json[1].schema # <<>> THEN json[1].schema
        ELSE IF content # <<>> THEN content[1].schema
        ELSE <<>>

\* the request body of parseOperation, as an optional ParsedSchema
ParseRequestBody(doc, index, operation, allParams) ==
    IF isSwagger2(doc)
    THEN LET bodyParams == SelectSeq(allParams, LAMBDA p : p.in = "body")
         IN  IF bodyParams # <<>> /\ bodyParams[1].schema # <<>>
             THEN <<parseSchema(index, bodyParams[1].schema[1], <<"R","e","q","u","e","s","t","B","o","d","y">>)>>
             ELSE <<>>
    ELSE IF operation.requestBody # <<>>
    THEN LET schema == ContentSchema(operation.requestBody[1].content)
         IN  IF schema # <<>> THEN <<parseSchema(index, schema[1], <<"R","e","q","u","e","s","t","B","o","d","y">>)>> ELSE <<>>
    ELSE <<>>

\* the schema parseOperation takes from one response object, as an optional schema
ResponseSchema(doc, response) ==
    IF isSwagger2(doc) /\ response.schema # <<>> THEN response.schema
    ELSE IF response.content # <<>> THEN ContentSchema(response.content[1])
    ELSE <<>>

RECURSIVE ParseResponses(_, _, _, _)
\* the loop over Object.entries(operation.responses): a Map from status code to ParsedSchema
ParseResponses(doc, index, entries, responses) ==
    IF entries = <<>> THEN responses
    ELSE LET schema == ResponseSchema(doc, entries[1].response)
         IN  ParseResponses(doc, index, Tail(entries),
                IF schema # <<>>
                THEN MapSet(responses, entries[1].statusCode,
                            parseSchema(index, schema[1], <<"R","e","s","p","o","n","s","e">> \o entries[1].statusCode))
                ELSE responses)

parseOperation(doc, index, p, m, operation, pathLevelParams) ==
    LET allParams == pathLevelParams \o operation.parameters
    IN  [path |-> p,
         method |-> m,
         pathParams |-> parseParameters(SelectSeq(allParams, LAMBDA q : q.in = "path")),
         queryParams |-> parseParameters(SelectSeq(allParams, LAMBDA q : q.in = "query")),
         headerParams |-> parseParameters(SelectSeq(allParams, LAMBDA q : q.in = "header")),
         requestBody |-> ParseRequestBody(doc, index, operation, allParams),
         responses |-> ParseResponses(doc, index, operation.responses, <<>>)]

\* the methods array of parseEndpoints and groupEndpointsByFolder
Methods == <<"get", "post", "put", "patch", "delete">>

\* method.toUpperCase()
MethodToUpperCase(m) ==
    CASE m = "get" -> GET
      [] m = "post" -> POST
      [] m = "put" -> PUT
      [] m = "patch" -> PATCH
      [] m = "delete" -> DELETE

\* the operations of one path item, in the order of the methods array
OperationsOf(doc, index, p, pathItem) ==
    LET present == SelectSeq(Methods, LAMBDA m : pathItem[m] # <<>>)
    IN  [i \in DOMAIN present |->
            parseOperation(doc, index, p, MethodToUpperCase(present[i]),
                           pathItem[present[i]][1], pathItem.parameters)]

RECURSIVE ParsePaths(_, _, _)
ParsePaths(doc, index, entries) ==
    IF entries = <<>> THEN <<>>
    ELSE OperationsOf(doc, index, entries[1].path, entries[1].pathItem)
            \o ParsePaths(doc, index, Tail(entries))

\* parseEndpoints, for a document that has a paths object
parseEndpoints(doc, index) == ParsePaths(doc, index, doc.paths[1])

-----------------------------------------------------------------------------
(* TypeGenerator (FileWriter.ts)                                           *)

\* new TypeGenerator(parser): two empty Maps
NewTypeGenerator == [typeDefinitions |-> <<>>, generatedTypes |-> <<>>]

RECURSIVE UniqueName(_, _, _, _, _)
\* the while loop of addType
UniqueName(typeDefinitions, name, definition, uniqueName, counter) ==
    IF MapHas(typeDefinitions, uniqueName)
       /\ MapGet(typeDefinitions, uniqueName) # definition
    THEN UniqueName(typeDefinitions, name, definition,
                    name \o NumberToString(counter), counter + 1)
    ELSE uniqueName

\* addType with the loop left out: the definition is stored under the name asked for
addTypeOverwriting(tg, name, definition, source) ==
    [typeDefinitions |-> MapSet(tg.typeDefinitions, name, definition),
     generatedTypes |-> MapSet(tg.generatedTypes, name,
                               [name |-> name, definition |-> definition,
                                source |-> source])]

addType(tg, name, definition, source) ==
    IF MapGet(tg.typeDefinitions, name) = definition THEN tg
    ELSE LET uniqueName == UniqueName(tg.typeDefinitions, name, definition, name, 1)
         IN  [typeDefinitions |-> MapSet(tg.typeDefinitions, uniqueName, definition),
              generatedTypes |-> MapSet(tg.generatedTypes, uniqueName,
                                        [name |-> uniqueName, definition |-> definition,
                                         source |-> source])]

RECURSIVE GenerateSchemaTypesFrom(_, _)
\* the loop of generateSchemaTypes over the entries of the schema index
GenerateSchemaTypesFrom(tg, entries) ==
    IF entries = <<>> THEN tg
    ELSE LET name == entries[1].key
             typeName == toPascalCase(name)
         IN  IF startsWith(name, <<"#","/">>) \/ MapHas(tg.typeDefinitions, typeName)
             THEN GenerateSchemaTypesFrom(tg, Tail(entries))
             ELSE GenerateSchemaTypesFrom(
                    addType(tg, typeName, schemaToTypeScript(entries[1].value),
                            <<"s","c","h","e","m","a",":">> \o name),
                    Tail(entries))

generateSchemaTypes(tg, index) == GenerateSchemaTypesFrom(tg, index)

\* the success codes ['200', '201', '202', '204']
successCodes == <<<<"2","0","0">>, <<"2","0","1">>, <<"2","0","2">>, <<"2","0","4">>>>

\* the request type of generateEndpointTypes
GenerateRequestType(tg, endpoint) ==
    LET requestTypeName ==
            generateTypeName(endpoint.method, extractResourceName(endpoint.path),
                             extractPathParams(endpoint.path), Request)
    IN  IF endpoint.requestBody # <<>>
           /\ ~MapHas(tg.typeDefinitions, requestTypeName)
           /\ Truthy(endpoint.requestBody[1].typeDefinition)
        THEN addType(tg, requestTypeName, endpoint.requestBody[1].typeDefinition,
                     <<"e","n","d","p","o","i","n","t",":">> \o endpoint.method \o <<":">> \o endpoint.path \o <<":","r","e","q","u","e","s","t">>)
        ELSE tg

\* the body of the first success code whose response has a non-empty type
\* definition, or undefined
FirstResponseBody(endpoint) ==
    LET found == SelectSeq(successCodes,
                           LAMBDA code : /\ MapHas(endpoint.responses, code)
                                         /\ Truthy(MapGet(endpoint.responses, code).typeDefinition))
    IN  IF found = <<>> THEN None ELSE MapGet(endpoint.responses, found[1]).typeDefinition

\* responseBody && trimmed !== '{}' ? responseBody : 'any'
FinalResponseBody(responseBody) ==
    LET trimmed == IF Truthy(responseBody)
                   THEN SelectSeq(responseBody, LAMBDA c : ~IsWhitespace(c))
                   ELSE <<>>
    IN  IF Truthy(responseBody) /\ trimmed # <<"{","}">> THEN responseBody ELSE t_any

\* the response type of generateEndpointTypes
GenerateResponseType(tg, endpoint) ==
    LET responseTypeName ==
            generateTypeName(endpoint.method, extractResourceName(endpoint.path),
                             extractPathParams(endpoint.path), Response)
    IN  IF ~MapHas(tg.typeDefinitions, responseTypeName)
        THEN addType(tg, responseTypeName, FinalResponseBody(FirstResponseBody(endpoint)),
                     <<"e","n","d","p","o","i","n","t",":">> \o endpoint.method \o <<":">> \o endpoint.path \o <<":","r","e","s","p","o","n","s","e">>)
        ELSE tg

generateEndpointTypes(tg, endpoint) ==
    GenerateResponseType(GenerateRequestType(tg, endpoint), endpoint)

RECURSIVE GenerateEndpointTypesFrom(_, _)
GenerateEndpointTypesFrom(tg, eps) ==
    IF eps = <<>> THEN tg
    ELSE GenerateEndpointTypesFrom(generateEndpointTypes(tg, eps[1]), Tail(eps))

\* generateAllTypes on a TypeGenerator tg
generateAllTypes(tg, index, eps) ==
    GenerateEndpointTypesFrom(generateSchemaTypes(tg, index), eps)

\* getRequestTypeName: None for null
getRequestTypeName(endpoint) ==
    IF endpoint.requestBody = <<>> THEN None
    ELSE generateTypeName(endpoint.method, extractResourceName(endpoint.path),
                          extractPathParams(endpoint.path), Request)

\* getResponseTypeName: None for null
getResponseTypeName(endpoint) ==
    IF \E i \in DOMAIN successCodes : MapHas(endpoint.responses, successCodes[i])
    THEN generateTypeName(endpoint.method, extractResourceName(endpoint.path),
                          extractPathParams(endpoint.path), Response)
    ELSE None

RECURSIVE IsUnionFrom(_, _, _, _, _)
\* isUnionTypeDefinition: the loop over the characters, with the three depths
IsUnionFrom(definition, i, braceDepth, parenDepth, bracketDepth) ==
    IF i > Len(definition) THEN FALSE
    ELSE LET char == definition[i]
         IN  IF char = "{" THEN IsUnionFrom(definition, i + 1, braceDepth + 1, parenDepth, bracketDepth)
             ELSE IF char = "}" THEN IsUnionFrom(definition, i + 1, braceDepth - 1, parenDepth, bracketDepth)
             ELSE IF char = "(" THEN IsUnionFrom(definition, i + 1, braceDepth, parenDepth + 1, bracketDepth)
             ELSE IF char = ")" THEN IsUnionFrom(definition, i + 1, braceDepth, parenDepth - 1, bracketDepth)
             ELSE IF char = "[" THEN IsUnionFrom(definition, i + 1, braceDepth, parenDepth, bracketDepth + 1)
             ELSE IF char = "]" THEN IsUnionFrom(definition, i + 1, braceDepth, parenDepth, bracketDepth - 1)
             ELSE IF char = "|" /\ braceDepth = 0 /\ parenDepth = 0 /\ bracketDepth = 0 THEN TRUE
             ELSE IsUnionFrom(definition, i + 1, braceDepth, parenDepth, bracketDepth)

isUnionTypeDefinition(definition) == IsUnionFrom(definition, 1, 0, 0, 0)

\* generateTypeDeclarations: one declaration of the loop over typeDefinitions
TypeDeclaration(name, definition) ==
    IF startsWith(definition, <<"{">>) /\ ~isUnionTypeDefinition(definition)
    THEN <<"e","x","p","o","r","t"," ","i","n","t","e","r","f","a","c","e"," ">> \o name \o <<" ">> \o definition
    ELSE <<"e","x","p","o","r","t"," ","t","y","p","e"," ">> \o name \o <<" ","="," ">> \o definition \o <<";">>

\* generateTypeDeclarations: the text of the types file of a TypeGenerator
generateTypeDeclarations(typeDefinitions) ==
    Join([i \in DOMAIN typeDefinitions |->
            TypeDeclaration(typeDefinitions[i].key, typeDefinitions[i].value)],
         <<"\n","\n">>)

-----------------------------------------------------------------------------
(* ClientGenerator (SwaggerParser.ts)                                      *)

\* the methods with a data parameter when delete is left out of the list
CarriesBodyWithoutDelete(m) == toLowerCase(m) \in {<<"p","o","s","t">>, <<"p","u","t">>, <<"p","a","t","c","h">>}

\* ['post', 'put', 'patch', 'delete'].includes(method)
CarriesBody(m) == toLowerCase(m) \in {<<"p","o","s","t">>, <<"p","u","t">>, <<"p","a","t","c","h">>, <<"d","e","l","e","t","e">>}

\* the path parameters of buildFunctionParams
PathParamDeclarations(endpoint, pathParams) ==
    [i \in DOMAIN pathParams |->
        LET paramDefs == SelectSeq(endpoint.pathParams, LAMBDA q : q.name = pathParams[i])
            type == IF paramDefs # <<>> /\ Truthy(paramDefs[1].type)
                    THEN paramDefs[1].type ELSE t_string
        IN  toCamelCase(pathParams[i]) \o <<":"," ">> \o type]

buildQueryParamsType(endpoint) ==
    <<"{"," ">> \o Join([i \in DOMAIN endpoint.queryParams |->
                    endpoint.queryParams[i].name
                        \o (IF endpoint.queryParams[i].required THEN <<>> ELSE <<"?">>)
                        \o <<":"," ">> \o endpoint.queryParams[i].type],
                 <<";"," ">>) \o <<" ","}">>

\* buildFunctionParams, before params.join(', ')
buildFunctionParams(endpoint, pathParams) ==
    LET hasRequestBody == endpoint.requestBody # <<>>
        hasQueryParams == Len(endpoint.queryParams) > 0
        requestTypeName == getRequestTypeName(endpoint)
        data == IF hasRequestBody /\ CarriesBody(endpoint.method)
                THEN <<<<"d","a","t","a",":"," ">> \o (IF requestTypeName # None THEN requestTypeName ELSE t_unknown)>>
                ELSE <<>>
        optional == \A i \in DOMAIN endpoint.queryParams : ~endpoint.queryParams[i].required
        query == IF hasQueryParams
                 THEN <<<<"p","a","r","a","m","s">> \o (IF optional THEN <<"?">> ELSE <<>>) \o <<":"," ">>
                            \o buildQueryParamsType(endpoint)>>
                 ELSE <<>>
    IN  PathParamDeclarations(endpoint, pathParams) \o data \o query
            \o <<<<"o","p","t","i","o","n","s","?",":"," ","R","e","q","u","e","s","t","O","p","t","i","o","n","s">>>>

\* the body when delete is handled with post, put and patch: an empty object
\* stands for the missing request body of a delete
buildFunctionBodyDeleteAsPost(endpoint, m, pathTemplate) ==
    LET hasQueryParams == Len(endpoint.queryParams) > 0
        hasRequestBody == endpoint.requestBody # <<>>
        optionsArg == IF hasQueryParams THEN <<"r","e","q","O","p","t","i","o","n","s">> ELSE <<"o","p","t","i","o","n","s">>
        call(second) ==
            <<"r","e","t","u","r","n"," ","t","h","i","s",".","c","l","i","e","n","t",".">> \o m \o <<"(">> \o pathTemplate \o <<","," ">>
                \o second \o optionsArg \o <<")",";">>
        request ==
            IF m \in {<<"p","o","s","t">>, <<"p","u","t">>, <<"p","a","t","c","h">>}
            THEN IF hasRequestBody THEN call(<<"d","a","t","a",","," ">>) ELSE call(<<"{","}",","," ">>)
            ELSE IF m = <<"d","e","l","e","t","e">>
            THEN IF hasRequestBody THEN call(<<"d","a","t","a",","," ">>) ELSE call(<<"{","}",","," ">>)
            ELSE call(<<>>)
    IN  (IF hasQueryParams THEN <<<<"c","o","n","s","t"," ","r","e","q","O","p","t","i","o","n","s"," ","="," ","{"," ",".",".",".","o","p","t","i","o","n","s",","," ","p","a","r","a","m","s"," ","}",";">>>> ELSE <<>>)
            \o <<request>>

\* buildFunctionBody, before lines.join
buildFunctionBody(endpoint, m, pathTemplate) ==
    LET hasQueryParams == Len(endpoint.queryParams) > 0
        hasRequestBody == endpoint.requestBody # <<>>
        optionsArg == IF hasQueryParams THEN <<"r","e","q","O","p","t","i","o","n","s">> ELSE <<"o","p","t","i","o","n","s">>
        call(second) ==
            <<"r","e","t","u","r","n"," ","t","h","i","s",".","c","l","i","e","n","t",".">> \o m \o <<"(">> \o pathTemplate \o <<","," ">>
                \o second \o optionsArg \o <<")",";">>
        request ==
            IF m \in {<<"p","o","s","t">>, <<"p","u","t">>, <<"p","a","t","c","h">>}
            THEN IF hasRequestBody THEN call(<<"d","a","t","a",","," ">>) ELSE call(<<"{","}",","," ">>)
            ELSE IF m = <<"d","e","l","e","t","e">>
            THEN IF hasRequestBody THEN call(<<"d","a","t","a",","," ">>) ELSE call(<<"u","n","d","e","f","i","n","e","d",","," ">>)
            ELSE call(<<>>)
    IN  (IF hasQueryParams THEN <<<<"c","o","n","s","t"," ","r","e","q","O","p","t","i","o","n","s"," ","="," ","{"," ",".",".",".","o","p","t","i","o","n","s",","," ","p","a","r","a","m","s"," ","}",";">>>> ELSE <<>>)
            \o <<request>>

\* generateClientFunction: the parts that buildFunctionCode puts into the code
generateClientFunction(endpoint) ==
    LET pathParams == extractPathParams(endpoint.path)
        responseTypeName == getResponseTypeName(endpoint)
    IN  [name |-> generateFunctionName(endpoint.method, extractResourceName(endpoint.path),
                                       pathParams),
         params |-> buildFunctionParams(endpoint, pathParams),
         responseTypeName |-> IF responseTypeName # None THEN responseTypeName ELSE t_unknown,
         body |-> buildFunctionBody(endpoint, toLowerCase(endpoint.method),
                                    generatePathTemplate(endpoint.path)),
         path |-> endpoint.path,
         method |-> endpoint.method]

generateClientFunctions(eps) == [i \in DOMAIN eps |-> generateClientFunction(eps[i])]

-----------------------------------------------------------------------------
(* groupEndpointsByFolder (utils/pathUtils)                                *)

\* the operations of one path item that groupEndpointsByFolder pushes
GroupOperationsOf(p, pathItem) ==
    LET present == SelectSeq(Methods, LAMBDA m : pathItem[m] # <<>>)
    IN  [i \in DOMAIN present |-> [path |-> p, method |-> MethodToUpperCase(present[i])]]

RECURSIVE GroupPathsResetting(_, _, _)
\* the loop with the group set anew for every path: the operations of an
\* earlier path of the same folder are lost
GroupPathsResetting(groupMap, entries, service) ==
    IF entries = <<>> THEN groupMap
    ELSE LET groupFolders == determineFolderStructure(entries[1].path, service)
             folderKey == Join(groupFolders, <<"/">>)
         IN  GroupPathsResetting(
                MapSet(groupMap, folderKey,
                       [folder |-> groupFolders,
                        endpoints |-> GroupOperationsOf(entries[1].path, entries[1].pathItem)]),
                Tail(entries), service)

RECURSIVE GroupPaths(_, _, _)
\* the loop of groupEndpointsByFolder: a Map from folder key to EndpointGroup
GroupPaths(groupMap, entries, service) ==
    IF entries = <<>> THEN groupMap
    ELSE LET groupFolders == determineFolderStructure(entries[1].path, service)
             folderKey == Join(groupFolders, <<"/">>)
             created == IF MapHas(groupMap, folderKey) THEN groupMap
                        ELSE MapSet(groupMap, folderKey,
                                    [folder |-> groupFolders, endpoints |-> <<>>])
             group == MapGet(created, folderKey)
         IN  GroupPaths(
                MapSet(created, folderKey,
                       [folder |-> group.folder,
                        endpoints |-> group.endpoints
                            \o GroupOperationsOf(entries[1].path, entries[1].pathItem)]),
                Tail(entries), service)

\* grouping into a Map that is kept from one call to the next, not created anew
groupEndpointsByFolderKeeping(paths, service) ==
    GroupPaths(IF previous = <<>> THEN <<>> ELSE groups, paths, service)

groupEndpointsByFolder(paths, service) == GroupPaths(<<>>, paths, service)

-----------------------------------------------------------------------------
(* SwaggerGenerator.generate (index.ts)                                    *)

\* endpoints.find((e) => e.path === ep.path && e.method === ep.method), for
\* each operation of the group, those found
GroupEndpoints(group, eps) ==
    LET found(ep) == SelectSeq(eps, LAMBDA e : e.path = ep.path /\ e.method = ep.method)
        present == SelectSeq(group.endpoints, LAMBDA ep : found(ep) # <<>>)
    IN  [i \in DOMAIN present |-> found(present[i])[1]]

RECURSIVE TypeImports(_, _)
\* the loop that collects typeImports
TypeImports(eps, typeImports) ==
    IF eps = <<>> THEN typeImports
    ELSE LET requestType == getRequestTypeName(eps[1])
             responseType == getResponseTypeName(eps[1])
             withRequest == IF requestType # None /\ ~arrayIncludes(typeImports, requestType)
                            THEN Append(typeImports, requestType) ELSE typeImports
             withResponse == IF responseType # None /\ ~arrayIncludes(withRequest, responseType)
                             THEN Append(withRequest, responseType) ELSE withRequest
         IN  TypeImports(Tail(eps), withResponse)

\* one iteration of the loop over the groups: what is emitted for one group
GenerateGroup(index, eps, entry) ==
    LET folderPath == entry.value.folder
        groupEndpoints == GroupEndpoints(entry.value, eps)
        groupTypeGenerator == generateAllTypes(NewTypeGenerator, index, groupEndpoints)
        className == Concat(folderPath) \o <<"C","l","i","e","n","t">>
    IN  IF Len(groupEndpoints) = 0
        THEN [skipped |-> TRUE, folderPath |-> folderPath]
        ELSE [skipped |-> FALSE,
              folderPath |-> folderPath,
              groupEndpoints |-> [i \in DOMAIN groupEndpoints |->
                                    [path |-> groupEndpoints[i].path,
                                     method |-> groupEndpoints[i].method]],
              typeDefinitions |-> groupTypeGenerator.typeDefinitions,
              typeImports |-> TypeImports(groupEndpoints, <<>>),
              className |-> className,
              functions |-> generateClientFunctions(groupEndpoints)]

\* the files of one group: types.ts when there are declarations, and the client
FilesOf(module) ==
    IF module.skipped THEN <<>>
    ELSE (IF module.typeDefinitions # <<>>
          THEN <<Append(module.folderPath, <<"t","y","p","e","s",".","t","s">>)>> ELSE <<>>)
            \o <<Append(module.folderPath, module.className \o <<".","t","s">>)>>

RECURSIVE AllFiles(_)
AllFiles(ms) == IF ms = <<>> THEN <<>> ELSE FilesOf(ms[1]) \o AllFiles(Tail(ms))

-----------------------------------------------------------------------------
(* FileWriter (FileWriter.ts). A file path is the sequence of its segments *)
(* below the output directory.                                             *)

\* new FileWriter(outputDir): nothing queued; writeAll has written nothing
NewFileWriter == [files |-> <<>>, writtenFiles |-> <<>>]

\* addTypesFile and addClientFile for one group
addFiles(fw, module) == [fw EXCEPT !.files = @ \o FilesOf(module)]

\* the characters in the order of String.prototype.localeCompare, letters
\* without their case
Collation ==
    <<"_", "-", ".", "/", "0", "1", "2", "3", "4", "5", "6", "7", "8", "9">> \o LowerLetters

\* the rank of a character in that order, a letter without its case
Rank ==
    [c \in Range(Collation) \cup Range(UpperLetters) |->
        CHOOSE k \in DOMAIN Collation : Collation[k] = toLowerCaseChar(c)]

RankOf(c) == IF c \in DOMAIN Rank THEN Rank[c] ELSE 0

\* the case of a character: a lower-case letter comes before its upper case
CaseOf(c) == IF c \in Range(UpperLetters) THEN 1 ELSE 0

RECURSIVE ComparePrimary(_, _, _)
\* the comparison of two strings by the ranks of their characters, from index i
ComparePrimary(a, b, i) ==
    IF i > Len(a) /\ i > Len(b) THEN 0
    ELSE IF i > Len(a) THEN -1
    ELSE IF i > Len(b) THEN 1
    ELSE IF RankOf(a[i]) < RankOf(b[i]) THEN -1
    ELSE IF RankOf(a[i]) > RankOf(b[i]) THEN 1
    ELSE ComparePrimary(a, b, i + 1)

RECURSIVE CompareCase(_, _, _)
\* the comparison of two strings of equal ranks by the case of their characters
CompareCase(a, b, i) ==
    IF i > Len(a) \/ i > Len(b) THEN 0
    ELSE IF CaseOf(a[i]) < CaseOf(b[i]) THEN -1
    ELSE IF CaseOf(a[i]) > CaseOf(b[i]) THEN 1
    ELSE CompareCase(a, b, i + 1)

\* a.localeCompare(b)
localeCompare(a, b) ==
    IF ComparePrimary(a, b, 1) # 0 THEN ComparePrimary(a, b, 1) ELSE CompareCase(a, b, 1)

\* '  '.repeat(n)
Indent(n) == [k \in 1..(2 * n) |-> " "]

\* previewStructure: the lines of one file, given the directories already listed
TreeLinesOf(parts, dirs) ==
    LET fresh == SelectSeq([k \in 1..(Len(parts) - 1) |-> k],
                           LAMBDA k : SubSeq(parts, 1, k) \notin dirs)
    IN  [i \in DOMAIN fresh |-> Indent(fresh[i] - 1) \o parts[fresh[i]] \o <<"/">>]
            \o <<Indent(Len(parts) - 1) \o parts[Len(parts)]>>

RECURSIVE TreeLines(_, _)
\* previewStructure: the loop over the sorted files
TreeLines(sortedFiles, dirs) ==
    IF sortedFiles = <<>> THEN <<>>
    ELSE LET parts == Head(sortedFiles)
         IN  TreeLinesOf(parts, dirs)
                \o TreeLines(Tail(sortedFiles),
                             dirs \cup {SubSeq(parts, 1, k) : k \in 1..(Len(parts) - 1)})

\* previewStructure
previewStructure(files) ==
    Join(TreeLines(SortSeq(files, LAMBDA a, b :
                                localeCompare(Join(a, <<"/">>), Join(b, <<"/">>)) < 0),
                   {}),
         <<"\n">>)

\* the GeneratorResult of the catch blocks
FailureOf(message) ==
    [success |-> FALSE, serviceName |-> <<>>, filesWritten |-> <<>>,
     folderStructure |-> <<>>, errors |-> <<message>>]

\* the GeneratorResult of a generation that has written its files
SuccessOf(service, fw) ==
    [success |-> TRUE, serviceName |-> service, filesWritten |-> fw.writtenFiles,
     folderStructure |-> previewStructure(fw.files), errors |-> <<>>]

\* the message of the TypeError of Object.entries(undefined)
CannotConvert == <<"C","a","n","n","o","t"," ","c","o","n","v","e","r","t"," ","u","n","d","e","f","i","n","e","d"," ","o","r"," ","n","u","l","l"," ","t","o"," ","o","b","j","e","c","t">>

\* generate(document) called directly
GenerateCall == [entry |-> "generate", outcome |-> "ok"]

\* new SwaggerParser(document), the service name and parser.parseEndpoints()
ParseDocument ==
    /\ pc = "generate"
    /\ document.paths # <<>>
    /\ schemas' = loadSchemas(document)
    /\ serviceName' = IF Truthy(options.serviceName) THEN options.serviceName
                      ELSE getServiceName(document)
    /\ endpoints' = parseEndpoints(document, loadSchemas(document))
    /\ fileWriter' = NewFileWriter
    /\ pc' = "types"
    /\ UNCHANGED <<runVars, path, method, folders, names, typeGenerator, options, document,
                   groups, modules, result>>

\* the catch block: Object.entries(document.paths) throws when there is no paths object
GenerationFailed ==
    /\ pc = "generate"
    /\ document.paths = <<>>
    /\ result' = FailureOf(CannotConvert)
    /\ pc' = "done"
    /\ UNCHANGED <<runVars, fileWriter, path, serviceName, method, folders, names, typeGenerator, options,
                   document, schemas, endpoints, groups, modules>>

\* typeGenerator.generateAllTypes(endpoints)
GenerateTypes ==
    /\ pc = "types"
    /\ typeGenerator' = generateAllTypes(NewTypeGenerator, schemas, endpoints)
    /\ pc' = "group"
    /\ UNCHANGED <<runVars, fileWriter, path, serviceName, method, folders, names, generateVars>>

\* groupEndpointsByFolder(document.paths, serviceName)
GroupEndpointsByFolder ==
    /\ pc = "group"
    /\ groups' = groupEndpointsByFolder(document.paths[1], serviceName)
    /\ modules' = <<>>
    /\ pc' = "groups"
    /\ UNCHANGED <<runVars, fileWriter, path, serviceName, method, folders, names, typeGenerator, options,
                   document, schemas, endpoints, result>>

\* one iteration of the loop over the groups that writes its files at once
GenerateGroupFilesWriting ==
    /\ pc = "groups"
    /\ Len(modules) < Len(groups)
    /\ LET module == GenerateGroup(schemas, endpoints, groups[Len(modules) + 1])
       IN  /\ modules' = Append(modules, module)
           /\ fileWriter' = [files |-> fileWriter.files \o FilesOf(module),
                             writtenFiles |-> fileWriter.writtenFiles \o FilesOf(module)]
    /\ UNCHANGED <<runVars, pc, path, serviceName, method, folders, names, typeGenerator, options,
                   document, schemas, endpoints, groups, result>>

\* one iteration of `for (const [folderKey, group] of groups)`
GenerateGroupFiles ==
    /\ pc = "groups"
    /\ Len(modules) < Len(groups)
    /\ LET module == GenerateGroup(schemas, endpoints, groups[Len(modules) + 1])
       IN  /\ modules' = Append(modules, module)
           /\ fileWriter' = addFiles(fileWriter, module)
    /\ UNCHANGED <<runVars, pc, path, serviceName, method, folders, names, typeGenerator, options,
                   document, schemas, endpoints, groups, result>>

\* fileWriter.writeAll() with every file written, and the successful result
WriteAll ==
    /\ pc = "groups"
    /\ Len(modules) = Len(groups)
    /\ fileWriter' = [fileWriter EXCEPT !.writtenFiles = fileWriter.files]
    /\ result' = SuccessOf(serviceName, fileWriter')
    /\ pc' = "done"
    /\ UNCHANGED <<runVars, path, serviceName, method, folders, names, typeGenerator, options,
                   document, schemas, endpoints, groups, modules>>

Next ==
    \/ ParseDocument
    \/ GenerationFailed
    \/ GenerateTypes
    \/ GroupEndpointsByFolder
    \/ GenerateGroupFiles
    \/ WriteAll

-----------------------------------------------------------------------------
(* Inputs: words, paths, service names                                     *)

w_api == <<"a","p","i">>
w_v1 == <<"v","1">>
w_activity == <<"a","c","t","i","v","i","t","y">>
w_activity_plan_schedule == <<"a","c","t","i","v","i","t","y","-","p","l","a","n","-","s","c","h","e","d","u","l","e">>
w_therapist_notes == <<"t","h","e","r","a","p","i","s","t","-","n","o","t","e","s">>
w_users == <<"u","s","e","r","s">>
w_items == <<"i","t","e","m","s">>
w_id_param == <<"{","i","d","}">>
Address == <<"A","d","d","r","e","s","s">>
Address1 == <<"A","d","d","r","e","s","s","1">>
User == <<"U","s","e","r">>
w_health == <<"h","e","a","l","t","h">>

ActivityService == <<"A","c","t","i","v","i","t","y","S","e","r","v","i","c","e">>
PetService == <<"P","e","t","S","e","r","v","i","c","e">>

ServiceNames == {ActivityService, PetService}

\* '/' + segments.join('/')
PathOf(segments) == <<"/">> \o Join(segments, <<"/">>)

RECURSIVE SeqsUpTo(_, _)
\* the sequences over S of length at most n
SeqsUpTo(S, n) ==
    IF n = 0 THEN {<<>>}
    ELSE LET shorter == SeqsUpTo(S, n - 1)
         IN  shorter \cup {Append(q, x) : q \in shorter, x \in S}

\* the paths of generator-config.ts's naming examples 1 and 3
ExamplePath1 == PathOf(<<w_api, w_v1, w_activity, w_activity_plan_schedule>>)
ExamplePath3 == PathOf(<<w_api, w_v1, w_activity, w_activity_plan_schedule, w_id_param>>)

MaxSegments == 3

NamingSegments ==
    {w_api, w_activity, w_activity_plan_schedule, w_therapist_notes, therapist, w_id_param}

NamingPaths ==
    {PathOf(q) : q \in SeqsUpTo(NamingSegments, MaxSegments)}
        \cup {ExamplePath1, ExamplePath3}

-----------------------------------------------------------------------------
(* Inputs: documents                                                       *)

\* { type: 'object', properties: { id: { type: 'integer' } }, required: ['id'] }
IdObject ==
    [EmptySchema EXCEPT
        !.type = t_object,
        !.properties = << <<[name |-> <<"i","d">>, schema |-> [EmptySchema EXCEPT !.type = t_integer]]>> >>,
        !.required = <<<<"i","d">>>>]

\* { type: 'object', properties: {} }
EmptyObject == [EmptySchema EXCEPT !.type = t_object, !.properties = << <<>> >>]

\* { type: 'string' }
StringSchema == [EmptySchema EXCEPT !.type = t_string]

\* { properties: { street: { type: 'string' } } }
StreetObject ==
    [EmptySchema EXCEPT
        !.properties = << <<[name |-> <<"s","t","r","e","e","t">>, schema |-> StringSchema]>> >>]

\* { properties: { zip: { type: 'string' } } }
ZipObject ==
    [EmptySchema EXCEPT
        !.properties = << <<[name |-> <<"z","i","p">>, schema |-> StringSchema]>> >>]

\* a response object: Swagger 2.0 puts the schema in `schema`, OpenAPI 3.x in
\* content['application/json'].schema; shape "none" declares no schema
ResponseObject(swagger2, shape) ==
    IF shape = "none" THEN [schema |-> <<>>, content |-> <<>>]
    ELSE LET schema == CASE shape = "empty" -> EmptyObject
                         [] shape = "id" -> IdObject
                         [] shape = "string" -> StringSchema
         IN  IF swagger2 THEN [schema |-> <<schema>>, content |-> <<>>]
             ELSE [schema |-> <<>>,
                   content |-> << <<[mediaType |-> ApplicationJson, schema |-> <<schema>>]>> >>]

\* the responses object: shapes[i] for the status codes[i], "absent" for no entry
ResponsesObject(swagger2, codes, shapes) ==
    LET declared == SelectSeq([i \in DOMAIN codes |-> i], LAMBDA i : shapes[i] # "absent")
    IN  [k \in DOMAIN declared |->
            [statusCode |-> codes[declared[k]],
             response |-> ResponseObject(swagger2, shapes[declared[k]])]]

\* an operation object with the given parameters, request body schema and responses
Operation(swagger2, parameters, body, responses) ==
    [parameters |->
        parameters \o
        (IF swagger2 /\ body # <<>>
         THEN <<[name |-> <<"b","o","d","y">>, in |-> "body", required |-> TRUE, type |-> None,
                 schema |-> body, enum |-> <<>>]>>
         ELSE <<>>),
     requestBody |->
        IF ~swagger2 /\ body # <<>>
        THEN <<[content |-> <<[mediaType |-> ApplicationJson, schema |-> body]>>]>>
        ELSE <<>>,
     responses |-> responses]

\* a path item with no operation
EmptyPathItem ==
    [parameters |-> <<>>, get |-> <<>>, post |-> <<>>, put |-> <<>>,
     patch |-> <<>>, delete |-> <<>>]

ActivityApi == <<"A","c","t","i","v","i","t","y"," ","A","P","I">>

\* a document: `paths` is <<>> when the document has no paths object
Document(swagger, openapi, paths, named) ==
    [swagger |-> swagger, openapi |-> openapi, title |-> ActivityApi, paths |-> paths,
     definitions |-> IF swagger # None THEN named ELSE <<>>,
     components_schemas |-> IF swagger # None THEN <<>> ELSE named]

v_2_0 == <<"2",".","0">>
v_1_2 == <<"1",".","2">>
v_3_0_1 == <<"3",".","0",".","1">>
v_3_1_0 == <<"3",".","1",".","0">>

HealthPath == PathOf(<<w_api, w_v1, w_health>>)

\* the operation { responses: { '200': { description } } }
PlainOperation(swagger2) ==
    Operation(swagger2, <<>>, <<>>, ResponsesObject(swagger2, <<<<"2","0","0">>>>, <<"none">>))

\* Documents that differ in the responses and the request body of one operation
ResponseShapes == {"absent", "none", "empty", "id", "string"}

ResponseDocuments ==
    { Document(None, v_3_0_1,
               << <<[path |-> HealthPath,
                     pathItem |-> [EmptyPathItem EXCEPT
                        ![m] = <<Operation(FALSE, <<>>, body,
                                    ResponsesObject(FALSE, <<<<"2","0","0">>, <<"2","0","1">>, <<"2","0","4">>>>,
                                                    <<r200, r201, r204>>))>>]]>> >>,
               <<>>) :
        m \in {"get", "post"}, body \in {<<>>, <<IdObject>>},
        r200 \in ResponseShapes, r201 \in {"absent", "empty", "string"},
        r204 \in {"absent", "string"} }

\* Swagger 2.0 documents that differ in their definitions: the names address,
\* Address and user, each with one of two bodies
MaxDefinitions == 2

NamedSchemas ==
    {[name |-> n, schema |-> b] : n \in {<<"a","d","d","r","e","s","s">>, Address, <<"u","s","e","r">>},
                                  b \in {StreetObject, ZipObject}}

DefinitionLists ==
    {q \in SeqsUpTo(NamedSchemas, MaxDefinitions) :
        \A i, j \in DOMAIN q : q[i].name = q[j].name => i = j}

DefinitionDocuments ==
    { Document(v_2_0, None,
               << <<[path |-> HealthPath,
                     pathItem |-> [EmptyPathItem EXCEPT !.get = <<PlainOperation(TRUE)>>]]>> >>,
               named) : named \in DefinitionLists }

\* OpenAPI 3 documents that differ in their paths, the order of the paths and
\* the operations of each path
MaxPaths == 3

UserItemsPath == PathOf(<<w_users, w_id_param, w_items>>)
UserItemPath == PathOf(<<w_users, w_items, w_id_param>>)
TherapistNotesPath == PathOf(<<w_activity, w_therapist_notes>>)

GroupingPaths == {UserItemsPath, UserItemPath, HealthPath, TherapistNotesPath}

\* GET answering an object
GetItem ==
    [EmptyPathItem EXCEPT
        !.get = <<Operation(FALSE, <<>>, <<>>, ResponsesObject(FALSE, <<<<"2","0","0">>>>, <<"id">>))>>]

\* GET answering a string and DELETE with a request body
GetDeleteItem ==
    [EmptyPathItem EXCEPT
        !.get = <<Operation(FALSE, <<>>, <<>>, ResponsesObject(FALSE, <<<<"2","0","0">>>>, <<"string">>))>>,
        !.delete = <<Operation(FALSE, <<>>, <<IdObject>>, <<>>)>>]

PathTables ==
    {q \in SeqsUpTo({[path |-> p, pathItem |-> item] :
                        p \in GroupingPaths, item \in {GetItem, GetDeleteItem}}, MaxPaths) :
        /\ q # <<>>
        /\ \A i, j \in DOMAIN q : q[i].path = q[j].path => i = j}

GroupingDocuments ==
    { Document(None, v_3_0_1, <<paths>>, <<>>) : paths \in PathTables }
        \cup { Document(None, v_3_0_1,
                        << <<[path |-> HealthPath, pathItem |-> EmptyPathItem],
                             [path |-> UserItemPath, pathItem |-> GetItem]>> >>, <<>>) }

\* Documents that differ in their version markers, with and without a paths object
VersionPaths(swagger) ==
    { <<>>,
      << <<[path |-> HealthPath,
            pathItem |-> [EmptyPathItem EXCEPT
                              !.get = <<PlainOperation(swagger = v_2_0)>>]]>> >> }

VersionDocuments ==
    UNION { { Document(swagger, openapi, paths, <<[name |-> Address, schema |-> StreetObject]>>) :
                openapi \in {None, v_3_0_1, v_3_1_0, v_2_0}, paths \in VersionPaths(swagger) } :
            swagger \in {None, v_2_0, v_1_2} }

\* Documents whose path item and operation declare parameters
Parameter(swagger2, name, in, type, required) ==
    [name |-> name, in |-> in, required |-> required,
     type |-> IF swagger2 THEN type ELSE None,
     schema |-> IF swagger2 THEN <<>> ELSE <<[EmptySchema EXCEPT !.type = type]>>,
     enum |-> <<>>]

UserPath == PathOf(<<w_users, w_id_param>>)

\* the parameter lists that declare id in the path and q in the query, each or both
ParameterLists(swagger2, type, queryRequired) ==
    { SelectSeq(<<Parameter(swagger2, <<"i","d">>, "path", type, TRUE),
                  Parameter(swagger2, <<"q">>, "query", type, queryRequired)>>,
                LAMBDA q : q.in \in locations) : locations \in SUBSET {"path", "query"} }

ParameterDocumentsOf(swagger2) ==
    { Document(IF swagger2 THEN v_2_0 ELSE None, IF swagger2 THEN None ELSE v_3_0_1,
               << <<[path |-> UserPath,
                     pathItem |-> [EmptyPathItem EXCEPT
                        !.parameters = pathLevel,
                        !.get = <<Operation(swagger2, operationLevel, <<>>,
                                    ResponsesObject(swagger2, <<<<"2","0","0">>>>, <<"id">>))>>]]>> >>,
               <<>>) :
        pathLevel \in ParameterLists(swagger2, t_string, FALSE),
        operationLevel \in ParameterLists(swagger2, t_integer, TRUE) }

ParameterDocuments == ParameterDocumentsOf(TRUE) \cup ParameterDocumentsOf(FALSE)

\* OpenAPI 3 documents with two GET operations that differ in the schema of
\* their 200 response
GetAnswering(shape) ==
    [EmptyPathItem EXCEPT
        !.get = <<Operation(FALSE, <<>>, <<>>, ResponsesObject(FALSE, <<<<"2","0","0">>>>, <<shape>>))>>]

PairDocuments ==
    { Document(None, v_3_0_1,
               << <<[path |-> HealthPath, pathItem |-> GetAnswering(first)],
                    [path |-> UserPath, pathItem |-> GetAnswering(second)]>> >>, <<>>) :
        first \in ResponseShapes, second \in ResponseShapes }

\* Documents whose request body and 200 response are a reference, an array of
\* references, an object with a reference property or a reference to nothing
RefTo(swagger2, name) ==
    [EmptySchema EXCEPT
        !.ref = (IF swagger2 THEN <<"#","/","d","e","f","i","n","i","t","i","o","n","s","/">> ELSE <<"#","/","c","o","m","p","o","n","e","n","t","s","/","s","c","h","e","m","a","s","/">>) \o name]

RefShapes(swagger2) ==
    { RefTo(swagger2, Address),
      RefTo(swagger2, <<"M","i","s","s","i","n","g">>),
      [EmptySchema EXCEPT !.type = t_array, !.items = <<RefTo(swagger2, Address)>>],
      [EmptySchema EXCEPT !.type = t_object,
            !.properties = << <<[name |-> <<"h","o","m","e">>, schema |-> RefTo(swagger2, Address)]>> >>] }

\* the responses object { '200': a response with the schema }
Answering(swagger2, schema) ==
    <<[statusCode |-> <<"2","0","0">>,
       response |-> IF swagger2 THEN [schema |-> <<schema>>, content |-> <<>>]
                    ELSE [schema |-> <<>>,
                          content |-> << <<[mediaType |-> ApplicationJson,
                                            schema |-> <<schema>>]>> >>]]>>

RefDocumentsOf(swagger2) ==
    { Document(IF swagger2 THEN v_2_0 ELSE None, IF swagger2 THEN None ELSE v_3_0_1,
               << <<[path |-> HealthPath,
                     pathItem |-> [EmptyPathItem EXCEPT
                        !.post = <<Operation(swagger2, <<>>, <<body>>,
                                             Answering(swagger2, answer))>>]]>> >>,
               <<[name |-> Address, schema |-> StreetObject]>>) :
        body \in RefShapes(swagger2), answer \in RefShapes(swagger2) }

RefDocuments == RefDocumentsOf(TRUE) \cup RefDocumentsOf(FALSE)

\* Documents that differ in info.title: absent, empty and some titles
Titles == {None, <<>>, ActivityApi, <<"P","e","t"," ","S","t","o","r","e"," ","S","e","r","v","i","c","e">>, <<"a","p","i">>, <<"u","s","e","r","-","s","e","r","v","i","c","e"," ","a","p","i">>}

TitleDocuments ==
    { [Document(None, v_3_0_1,
                << <<[path |-> HealthPath,
                      pathItem |-> [EmptyPathItem EXCEPT !.get = <<PlainOperation(FALSE)>>]]>> >>,
                <<>>) EXCEPT !.title = title] : title \in Titles }

\* Documents with one named object schema whose properties differ in name,
\* type, required and nullable
MaxProperties == 2

PropertySchemas ==
    { [EmptySchema EXCEPT !.type = type, !.nullable = nullable] :
        type \in {t_integer, t_string}, nullable \in BOOLEAN }
        \cup { [RefTo(FALSE, Address) EXCEPT !.nullable = nullable] : nullable \in BOOLEAN }
        \cup { [EmptyObject EXCEPT !.nullable = nullable] : nullable \in BOOLEAN }

Properties ==
    { [name |-> <<"i","d">>, schema |-> schema, required |-> required] :
        schema \in PropertySchemas, required \in BOOLEAN }
        \cup { [name |-> name, schema |-> StringSchema, required |-> TRUE] :
                name \in {<<"1","s","t">>, <<"f","i","r","s","t","-","n","a","m","e">>, <<"$","x","_","1">>, <<"a"," ","b">>} }

PropertyLists ==
    {q \in SeqsUpTo(Properties, MaxProperties) :
        /\ q # <<>>
        /\ \A i, j \in DOMAIN q : q[i].name = q[j].name => i = j}

\* { type: 'object', properties, required }
ObjectWith(properties) ==
    [EmptySchema EXCEPT
        !.type = t_object,
        !.properties = <<[i \in DOMAIN properties |->
                            [name |-> properties[i].name, schema |-> properties[i].schema]]>>,
        !.required = LET required == SelectSeq(properties, LAMBDA q : q.required)
                     IN  [i \in DOMAIN required |-> required[i].name]]

PropertyDocuments ==
    { Document(None, v_3_0_1,
               << <<[path |-> HealthPath,
                     pathItem |-> [EmptyPathItem EXCEPT !.get = <<PlainOperation(FALSE)>>]]>> >>,
               <<[name |-> <<"T","h","i","n","g">>, schema |-> ObjectWith(properties)]>>) :
        properties \in PropertyLists }

\* OpenAPI 3 documents whose request body or 200 response declares several
\* media types, with and without a schema, in every order
MaxMediaTypes == 2

TextPlain == <<"t","e","x","t","/","p","l","a","i","n">>
ApplicationXml == <<"a","p","p","l","i","c","a","t","i","o","n","/","x","m","l">>

MediaTypeObjects ==
    { [mediaType |-> ApplicationJson, schema |-> schema] : schema \in {<<>>, <<IdObject>>} }
        \cup { [mediaType |-> TextPlain, schema |-> schema] : schema \in {<<>>, <<StringSchema>>} }
        \cup { [mediaType |-> ApplicationXml, schema |-> schema] : schema \in {<<>>, <<ZipObject>>} }

Contents ==
    {q \in SeqsUpTo(MediaTypeObjects, MaxMediaTypes) :
        \A i, j \in DOMAIN q : q[i].mediaType = q[j].mediaType => i = j}

MediaDocuments ==
    { Document(None, v_3_0_1,
               << <<[path |-> HealthPath,
                     pathItem |-> [EmptyPathItem EXCEPT
                        !.post = <<[parameters |-> <<>>,
                                    requestBody |-> <<[content |-> content]>>,
                                    responses |-> ResponsesObject(FALSE, <<<<"2","0","0">>>>, <<"string">>)]>>]]>> >>,
               <<>>) : content \in Contents }
        \cup
    { Document(None, v_3_0_1,
               << <<[path |-> HealthPath,
                     pathItem |-> [EmptyPathItem EXCEPT
                        !.post = <<[parameters |-> <<>>,
                                    requestBody |-> <<>>,
                                    responses |-> <<[statusCode |-> <<"2","0","0">>,
                                                     response |-> [schema |-> <<>>,
                                                                   content |-> <<content>>]]>>]>>]]>> >>,
               <<>>) : content \in Contents }

\* OpenAPI 3 documents with one operation of every method, with and without a
\* request body, with no, one or two path parameters and with query parameters
\* that are optional or required
MaxQueryParams == 2

w_user_id_param == <<"{","u","s","e","r","-","i","d","}">>
ItemPath == PathOf(<<w_users, w_user_id_param, w_items, w_id_param>>)

QueryParameters ==
    { Parameter(FALSE, name, "query", t_string, required) :
        name \in {<<"q">>, <<"r">>, <<"s">>}, required \in BOOLEAN }

QueryParameterLists ==
    {q \in SeqsUpTo(QueryParameters, MaxQueryParams) :
        \A i, j \in DOMAIN q : q[i].name = q[j].name => i = j}

\* the path parameters that the operation declares, in the reverse of their
\* order in the path
PathParametersOf(p) ==
    IF p = ItemPath
    THEN <<Parameter(FALSE, <<"i","d">>, "path", t_integer, TRUE),
           Parameter(FALSE, <<"u","s","e","r","-","i","d">>, "path", t_string, TRUE)>>
    ELSE <<>>

CallDocumentsOf(p, m) ==
    { Document(None, v_3_0_1,
               << <<[path |-> p,
                     pathItem |-> [EmptyPathItem EXCEPT
                        ![m] = <<Operation(FALSE, PathParametersOf(p) \o query, body,
                                        ResponsesObject(FALSE, <<<<"2","0","0">>>>, <<"string">>))>>]]>> >>,
               <<>>) :
        query \in QueryParameterLists, body \in {<<>>, <<IdObject>>} }

CallDocuments ==
    UNION { CallDocumentsOf(p, m) :
                p \in {HealthPath, UserPath, ItemPath}, m \in Range(Methods) }

\* Documents with the named schema Address and two GET operations, in two
\* groups, whose 200 responses refer to it
SharedSchemaDocumentsOf(swagger2) ==
    { Document(IF swagger2 THEN v_2_0 ELSE None, IF swagger2 THEN None ELSE v_3_0_1,
               << <<[path |-> HealthPath,
                     pathItem |-> [EmptyPathItem EXCEPT
                        !.get = <<Operation(swagger2, <<>>, <<>>, Answering(swagger2, first))>>]],
                    [path |-> UserItemPath,
                     pathItem |-> [EmptyPathItem EXCEPT
                        !.get = <<Operation(swagger2, <<>>, <<>>, Answering(swagger2, second))>>]]>> >>,
               <<[name |-> Address, schema |-> StreetObject]>>) :
        first \in RefShapes(swagger2), second \in RefShapes(swagger2) }

SharedSchemaDocuments == SharedSchemaDocumentsOf(TRUE) \cup SharedSchemaDocumentsOf(FALSE)

\* Documents whose request body and 200 response refer to a schema that the
\* document does not define: as a reference, as the items of an array and as
\* a property of an object
MissingNames == {<<"M","i","s","s","i","n","g">>, <<"m","i","s","s","i","n","g","-","t","y","p","e">>}

UnresolvedShapes(swagger2, name) ==
    { RefTo(swagger2, name),
      [EmptySchema EXCEPT !.type = t_array, !.items = <<RefTo(swagger2, name)>>],
      [EmptySchema EXCEPT !.type = t_object,
            !.properties = << <<[name |-> <<"h","o","m","e">>, schema |-> RefTo(swagger2, name)]>> >>] }

\* schemas that schemaToTypeScript renders as the empty string: an enum
\* without values, an allOf and a oneOf without members
EmptyRenderings ==
    { [EmptySchema EXCEPT !.type = t_string, !.enum = << <<>> >>],
      [EmptySchema EXCEPT !.allOf = << <<>> >>],
      [EmptySchema EXCEPT !.oneOf = << <<>> >>] }

\* Documents whose operation takes such a schema as its request body
EmptyRenderingDocuments ==
    { Document(IF swagger2 THEN v_2_0 ELSE None, IF swagger2 THEN None ELSE v_3_0_1,
               << <<[path |-> HealthPath,
                     pathItem |-> [EmptyPathItem EXCEPT
                        !.post = <<Operation(swagger2, <<>>, <<body>>,
                                             ResponsesObject(swagger2, <<<<"2","0","0">>>>, <<"string">>))>>]]>> >>,
               <<>>) :
        swagger2 \in BOOLEAN, body \in EmptyRenderings }

UnresolvedDocumentsOf(swagger2, name) ==
    { Document(IF swagger2 THEN v_2_0 ELSE None, IF swagger2 THEN None ELSE v_3_0_1,
               << <<[path |-> HealthPath,
                     pathItem |-> [EmptyPathItem EXCEPT
                        !.post = <<Operation(swagger2, <<>>, <<body>>,
                                             Answering(swagger2, answer))>>]]>> >>,
               <<[name |-> Address, schema |-> StreetObject]>>) :
        body \in UnresolvedShapes(swagger2, name),
        answer \in UnresolvedShapes(swagger2, name) }

UnresolvedDocuments ==
    UNION { UnresolvedDocumentsOf(swagger2, name) :
                swagger2 \in BOOLEAN, name \in MissingNames }

-----------------------------------------------------------------------------
(* SpecNaming: the naming and folder functions applied to one path         *)

InitNaming ==
    /\ pc = "naming"
    /\ path \in NamingPaths
    /\ serviceName \in ServiceNames
    /\ method \in {GET, DELETE}
    /\ folders = None
    /\ names = None
    /\ typeGenerator = None
    /\ options = None
    /\ document = None
    /\ schemas = None
    /\ endpoints = None
    /\ groups = None
    /\ modules = None
    /\ result = None
    /\ config = None
    /\ run = None
    /\ previous = <<>>
    /\ rendering = None
    /\ fileWriter = None
    /\ entryPoint = None

DetermineFolder ==
    /\ pc = "naming"
    /\ folders' = determineFolderStructure(path, serviceName)
    /\ pc' = "folder"
    /\ UNCHANGED <<runVars, fileWriter, path, serviceName, method, names, typeGenerator, generateVars>>

DeriveNames ==
    /\ pc = "folder"
    /\ names' =
        LET resourceName == extractResourceName(path)
            pathParams == extractPathParams(path)
        IN  [resourceName |-> resourceName,
             pathParams |-> pathParams,
             functionName |-> generateFunctionName(method, resourceName, pathParams),
             requestTypeName |-> generateTypeName(method, resourceName, pathParams, Request),
             responseTypeName |-> generateTypeName(method, resourceName, pathParams, Response)]
    /\ pc' = "named"
    /\ UNCHANGED <<runVars, fileWriter, path, serviceName, method, folders, typeGenerator, generateVars>>

NextNaming == DetermineFolder \/ DeriveNames

SpecNaming == InitNaming /\ [][NextNaming]_vars

\* C4: a path that keeps two or more segments, one of which contains
\* "therapist" in any case, is put in the folder [serviceName, "Therapist"].
C4_TherapistFolderIsTwoElements ==
    (/\ pc # "naming"
     /\ Len(FilteredSegments(path)) >= 2
     /\ \E i \in DOMAIN FilteredSegments(path) :
            includes(toLowerCase(FilteredSegments(path)[i]), therapist))
        => folders = <<serviceName, Therapist>>

\* C5: for the segments activity, activity-plan-schedule the resource name is
\* ActivityPlanSchedule; GET on example path 3 is named
\* getActivityPlanScheduleById with the type getActivityPlanScheduleByIdResponse,
\* DELETE on example path 1 has the types deleteActivityPlanScheduleRequest
\* and deleteActivityPlanScheduleResponse.
C5_ActivityPlanScheduleNames ==
    (pc = "named" /\ FilteredSegments(path) = <<w_activity, w_activity_plan_schedule>>)
        => /\ names.resourceName = <<"A","c","t","i","v","i","t","y","P","l","a","n","S","c","h","e","d","u","l","e">>
           /\ (path = ExamplePath3 /\ method = GET)
                => /\ names.functionName = <<"g","e","t","A","c","t","i","v","i","t","y","P","l","a","n","S","c","h","e","d","u","l","e","B","y","I","d">>
                   /\ names.responseTypeName = <<"g","e","t","A","c","t","i","v","i","t","y","P","l","a","n","S","c","h","e","d","u","l","e","B","y","I","d","R","e","s","p","o","n","s","e">>
           /\ (path = ExamplePath1 /\ method = DELETE)
                => /\ names.requestTypeName = <<"d","e","l","e","t","e","A","c","t","i","v","i","t","y","P","l","a","n","S","c","h","e","d","u","l","e","R","e","q","u","e","s","t">>
                   /\ names.responseTypeName = <<"d","e","l","e","t","e","A","c","t","i","v","i","t","y","P","l","a","n","S","c","h","e","d","u","l","e","R","e","s","p","o","n","s","e">>


-----------------------------------------------------------------------------
(* SpecAddType: any sequence of TypeGenerator.addType calls on one         *)
(* TypeGenerator                                                           *)



MaxTypes == 3

AddTypeNames == {Address, Address1, User}
AddTypeDefinitions == {t_string, t_number, t_any}

InitAddType ==
    /\ pc = "addType"
    /\ typeGenerator = NewTypeGenerator
    /\ path = None
    /\ serviceName = None
    /\ method = None
    /\ folders = None
    /\ names = None
    /\ options = None
    /\ document = None
    /\ schemas = None
    /\ endpoints = None
    /\ groups = None
    /\ modules = None
    /\ result = None
    /\ config = None
    /\ run = None
    /\ previous = <<>>
    /\ rendering = None
    /\ fileWriter = None
    /\ entryPoint = None

\* one call addType(name, definition, `schema:${name}`)
AddTypeCall ==
    /\ pc = "addType"
    /\ Len(typeGenerator.typeDefinitions) < MaxTypes
    /\ \E name \in AddTypeNames, definition \in AddTypeDefinitions :
            typeGenerator' = addType(typeGenerator, name, definition, name)
    /\ UNCHANGED <<runVars, fileWriter, pc, path, serviceName, method, folders, names, generateVars>>

NextAddType == AddTypeCall

SpecAddType == InitAddType /\ [][NextAddType]_vars

\* no key occurs twice in a Map
UniqueKeys(m) == \A i, j \in DOMAIN m : m[i].key = m[j].key => i = j

\* the generated types are the type definitions: same names, same bodies
TypesAgree(tg) ==
    /\ UniqueKeys(tg.typeDefinitions)
    /\ UniqueKeys(tg.generatedTypes)
    /\ MapKeys(tg.generatedTypes) = MapKeys(tg.typeDefinitions)
    /\ \A i \in DOMAIN tg.generatedTypes :
        /\ tg.generatedTypes[i].value.name = tg.generatedTypes[i].key
        /\ tg.generatedTypes[i].value.definition
                = MapGet(tg.typeDefinitions, tg.generatedTypes[i].key)

\* a body stored under a name stays the body of that name
BodiesKept(before, after) ==
    \A i \in DOMAIN before.typeDefinitions :
        /\ MapHas(after.typeDefinitions, before.typeDefinitions[i].key)
        /\ MapGet(after.typeDefinitions, before.typeDefinitions[i].key)
                = before.typeDefinitions[i].value
        /\ MapGet(after.generatedTypes, before.typeDefinitions[i].key).definition
                = before.typeDefinitions[i].value

\* C1: after any sequence of type additions every type name has exactly one
\* body, the same in typeDefinitions and generatedTypes, and no addition
\* replaces the body stored under a name by a different body.
C1_OneBodyPerName ==
    /\ [](TypesAgree(typeGenerator))
    /\ [][BodiesKept(typeGenerator, typeGenerator')]_vars

\* C1's case: a second body asked for under a taken name is stored under the
\* suffixed name, beside the first body
C1_Witness ==
    /\ pc = "addType"
    /\ \E i, j \in DOMAIN typeGenerator.generatedTypes :
        /\ typeGenerator.generatedTypes[i].key = Address
        /\ typeGenerator.generatedTypes[j].key = Address1
        /\ typeGenerator.generatedTypes[j].value.source = Address
        /\ typeGenerator.generatedTypes[i].value.definition
                # typeGenerator.generatedTypes[j].value.definition

-----------------------------------------------------------------------------
(* Spec: SwaggerGenerator.generate on one document                         *)

\* new SwaggerGenerator({ outputDir }) and ({ outputDir, serviceName })
NoServiceName == [serviceName |-> None]
WithServiceName == [serviceName |-> PetService]

GenerateInputs ==
    {<<NoServiceName, d>> :
        d \in ResponseDocuments \cup DefinitionDocuments \cup GroupingDocuments
                \cup VersionDocuments \cup ParameterDocuments
                \cup PairDocuments
                \cup RefDocuments
                \cup TitleDocuments
                \cup PropertyDocuments
                \cup MediaDocuments
                \cup CallDocuments
                \cup SharedSchemaDocuments
                \cup UnresolvedDocuments
                \cup EmptyRenderingDocuments}
        \cup {<<WithServiceName, d>> : d \in VersionDocuments}

Init ==
    /\ pc = "generate"
    /\ \E input \in GenerateInputs :
        /\ options = input[1]
        /\ document = input[2]
    /\ path = None
    /\ method = None
    /\ folders = None
    /\ names = None
    /\ serviceName = None
    /\ typeGenerator = None
    /\ schemas = None
    /\ endpoints = None
    /\ groups = None
    /\ modules = None
    /\ result = None
    /\ config = None
    /\ run = None
    /\ previous = <<>>
    /\ rendering = None
    /\ fileWriter = NewFileWriter
    /\ entryPoint = GenerateCall

Spec == Init /\ [][Next]_vars



-----------------------------------------------------------------------------
(* SpecCase: toPascalCase and toCamelCase applied to a string              *)

MaxChars == 3

\* letters of both cases, a digit and the separators of toPascalCase
CaseAlphabet == {"a", "B", "1", "-", "_", " "}

CaseInputs == SeqsUpTo(CaseAlphabet, MaxChars)

InitCase ==
    /\ pc = "case"
    /\ path \in CaseInputs
    /\ serviceName = None
    /\ method = None
    /\ folders = None
    /\ names = None
    /\ typeGenerator = None
    /\ options = None
    /\ document = None
    /\ schemas = None
    /\ endpoints = None
    /\ groups = None
    /\ modules = None
    /\ result = None
    /\ config = None
    /\ run = None
    /\ previous = <<>>
    /\ rendering = None
    /\ fileWriter = None
    /\ entryPoint = None

\* the two conversions of the string, and those of its PascalCase
ConvertCase ==
    /\ pc = "case"
    /\ names' = [pascal |-> toPascalCase(path),
                 camel |-> toCamelCase(path),
                 pascalOfPascal |-> toPascalCase(toPascalCase(path)),
                 camelOfPascal |-> toCamelCase(toPascalCase(path))]
    /\ pc' = "cased"
    /\ UNCHANGED <<runVars, fileWriter, path, serviceName, method, folders, typeGenerator, generateVars>>

NextCase == ConvertCase

SpecCase == InitCase /\ [][NextCase]_vars

-----------------------------------------------------------------------------
(* SpecTwice: SwaggerGenerator.generate called twice with the same document *)
(* on the same generator                                                   *)

\* the documents of the repeated run: with several groups, with a named
\* schema in two groups, without a paths object
TwiceInputs ==
    {<<NoServiceName, d>> :
        d \in GroupingDocuments \cup SharedSchemaDocuments \cup VersionDocuments}

\* what a call of generate has put out: the groups in their order, per group
\* the text of the types file and the client, and the result
Output ==
    [groups |-> groups,
     types |-> IF result.success
               THEN [g \in DOMAIN modules |->
                        IF modules[g].skipped THEN <<>>
                        ELSE generateTypeDeclarations(modules[g].typeDefinitions)]
               ELSE <<>>,
     modules |-> modules,
     result |-> result]

InitTwice ==
    /\ pc = "generate"
    /\ \E input \in TwiceInputs :
        /\ options = input[1]
        /\ document = input[2]
    /\ path = None
    /\ method = None
    /\ folders = None
    /\ names = None
    /\ serviceName = None
    /\ typeGenerator = None
    /\ schemas = None
    /\ endpoints = None
    /\ groups = None
    /\ modules = None
    /\ result = None
    /\ config = None
    /\ run = None
    /\ previous = <<>>
    /\ rendering = None
    /\ fileWriter = NewFileWriter
    /\ entryPoint = GenerateCall

\* generate(document) is called again on the same generator with the same
\* document; everything that the first call has left behind is still there
GenerateAgain ==
    /\ pc = "done"
    /\ previous = <<>>
    /\ rendering = None
    /\ previous' = <<Output>>
    /\ pc' = "generate"
    /\ UNCHANGED <<config, run, rendering, fileWriter, entryPoint, path, serviceName, method,
                   folders, names, typeGenerator, generateVars>>

NextTwice ==
    \/ ParseDocument
    \/ GenerationFailed
    \/ GenerateTypes
    \/ GroupEndpointsByFolder
    \/ GenerateGroupFiles
    \/ WriteAll
    \/ GenerateAgain

SpecTwice == InitTwice /\ [][NextTwice]_vars

-----------------------------------------------------------------------------
(* SpecWrite: generate, generateFromFile and generateFromUrl with the file *)
(* system and the network in view: the source is read or fetched, and      *)
(* writeAll writes the queued files one at a time, each of which may fail  *)

\* generateFromFile(filePath): the file is read and parsed, fs.promises.readFile
\* rejects, or JSON.parse throws
FileOutcomes == {"ok", "ENOENT", "SyntaxError"}

\* generateFromUrl(url): the document is fetched and parsed, fetch rejects,
\* response.ok is false, or response.json() rejects
UrlOutcomes == {"ok", "fetch failed", "HTTP 404", "SyntaxError"}

\* the calls of the three entry points
EntryPoints ==
    {GenerateCall}
        \cup { [entry |-> "generateFromFile", outcome |-> outcome] : outcome \in FileOutcomes }
        \cup { [entry |-> "generateFromUrl", outcome |-> outcome] : outcome \in UrlOutcomes }

\* the documents of one and of several groups whose operations are all GET
WriteDocuments ==
    {d \in GroupingDocuments :
        \A i \in DOMAIN d.paths[1] : d.paths[1][i].pathItem \in {EmptyPathItem, GetItem}}

\* the documents handed to generate, and those behind a file or a URL; what
\* lies behind a source that cannot be read is never looked at
WriteInputs ==
    { [call |-> GenerateCall, document |-> d] : d \in WriteDocuments \cup VersionDocuments }
        \cup { [call |-> c, document |-> d] :
                    c \in {e \in EntryPoints : e.entry # "generate" /\ e.outcome = "ok"},
                    d \in VersionDocuments }
        \cup { [call |-> c, document |-> Document(None, v_3_0_1, <<>>, <<>>)] :
                    c \in {e \in EntryPoints : e.outcome # "ok"} }

InitWrite ==
    /\ \E input \in WriteInputs :
        /\ entryPoint = input.call
        /\ document = input.document
        /\ pc = IF input.call.entry = "generate" THEN "generate" ELSE "read"
    /\ options = NoServiceName
    /\ fileWriter = NewFileWriter
    /\ path = None
    /\ method = None
    /\ folders = None
    /\ names = None
    /\ serviceName = None
    /\ typeGenerator = None
    /\ schemas = None
    /\ endpoints = None
    /\ groups = None
    /\ modules = None
    /\ result = None
    /\ config = None
    /\ run = None
    /\ previous = <<>>
    /\ rendering = None

\* what the read and write steps leave alone
writeUnchanged ==
    <<runVars, path, serviceName, method, folders, names, typeGenerator, options, document,
      schemas, endpoints, groups, modules>>

\* generateFromFile / generateFromUrl: the document is there, generate(document)
ReadDocument ==
    /\ pc = "read"
    /\ entryPoint.outcome = "ok"
    /\ pc' = "generate"
    /\ UNCHANGED <<writeUnchanged, fileWriter, result>>

\* the message that the catch block of the entry point puts before the error
FailurePrefix(entry) ==
    IF entry = "generateFromFile" THEN <<"F","a","i","l","e","d"," ","t","o"," ","r","e","a","d"," ","f","i","l","e",":"," ">>
    ELSE <<"F","a","i","l","e","d"," ","t","o"," ","f","e","t","c","h"," ","U","R","L",":"," ">>

\* the message of the error that is thrown for an outcome
ErrorMessage(outcome) ==
    CASE outcome = "ENOENT" -> <<"E","N","O","E","N","T",":"," ","n","o"," ","s","u","c","h"," ","f","i","l","e"," ","o","r"," ","d","i","r","e","c","t","o","r","y">>
      [] outcome = "SyntaxError" -> <<"U","n","e","x","p","e","c","t","e","d"," ","t","o","k","e","n">>
      [] outcome = "fetch failed" -> <<"f","e","t","c","h"," ","f","a","i","l","e","d">>
      [] outcome = "HTTP 404" -> <<"H","T","T","P"," ","4","0","4",":"," ","N","o","t"," ","F","o","u","n","d">>
      [] outcome = "EACCES" -> <<"E","A","C","C","E","S",":"," ","p","e","r","m","i","s","s","i","o","n"," ","d","e","n","i","e","d">>

\* generateFromFile / generateFromUrl: the catch block
ReadFails ==
    /\ pc = "read"
    /\ entryPoint.outcome # "ok"
    /\ result' = FailureOf(FailurePrefix(entryPoint.entry) \o ErrorMessage(entryPoint.outcome))
    /\ pc' = "done"
    /\ UNCHANGED <<writeUnchanged, fileWriter>>

\* every group has been handled and a queued file is still to be written
Writing ==
    /\ pc = "groups"
    /\ Len(modules) = Len(groups)
    /\ Len(fileWriter.writtenFiles) < Len(fileWriter.files)

\* writeAll: ensureDir or writeFile rejects, and the error leaves generate
WriteFileFailsUncaught ==
    /\ Writing
    /\ pc' = "rejected"
    /\ UNCHANGED <<writeUnchanged, fileWriter, result>>

\* writeAll: ensureDir or writeFile rejects; the catch block of generate
WriteFileFails ==
    /\ Writing
    /\ result' = FailureOf(ErrorMessage("EACCES"))
    /\ pc' = "done"
    /\ UNCHANGED <<writeUnchanged, fileWriter>>

\* writeAll: one round of the loop over the files
WriteFile ==
    /\ Writing
    /\ fileWriter' = [fileWriter EXCEPT
                        !.writtenFiles = Append(@, fileWriter.files[Len(@) + 1])]
    /\ UNCHANGED <<writeUnchanged, pc, result>>

\* writeAll has returned: the successful result
ReturnWritten ==
    /\ pc = "groups"
    /\ Len(modules) = Len(groups)
    /\ Len(fileWriter.writtenFiles) = Len(fileWriter.files)
    /\ result' = SuccessOf(serviceName, fileWriter)
    /\ pc' = "done"
    /\ UNCHANGED <<writeUnchanged, fileWriter>>

NextWrite ==
    \/ ReadDocument
    \/ ReadFails
    \/ ParseDocument
    \/ GenerationFailed
    \/ GenerateTypes
    \/ GroupEndpointsByFolder
    \/ GenerateGroupFiles
    \/ WriteFile
    \/ WriteFileFails
    \/ ReturnWritten

SpecWrite == InitWrite /\ [][NextWrite]_vars

-----------------------------------------------------------------------------
(* SpecRender: the calls that parseSchema, schemaToTypeScript and          *)
(* objectSchemaToTypeScript make for one schema, one call at a time        *)

MaxCalls == 6
MaxResolutions == 2

\* a call that is still to be made: the function, its schema, and how many
\* references have been resolved on the way to it
Call(function, schema, resolutions) ==
    [function |-> function, schema |-> schema, resolutions |-> resolutions]

\* one more resolved reference
Resolved(resolutions) ==
    IF resolutions < MaxResolutions THEN resolutions + 1 ELSE resolutions

\* the member schemas of allOf, or of oneOf, or of anyOf
Members(schema) ==
    IF schema.allOf # <<>> THEN schema.allOf[1]
    ELSE IF schema.oneOf # <<>> THEN schema.oneOf[1]
    ELSE IF schema.anyOf # <<>> THEN schema.anyOf[1]
    ELSE <<>>

\* the calls of a call when schemaToTypeScript resolves a reference and
\* renders the schema behind it
CalleesFollowing(index, call) ==
    LET schema == call.schema
        r == call.resolutions
        each(function, list) == [i \in DOMAIN list |-> Call(function, list[i], r)]
        propertySchemas ==
            IF schema.properties = <<>> THEN <<>>
            ELSE [i \in DOMAIN schema.properties[1] |-> schema.properties[1][i].schema]
        dictionary ==
            IF schema.additionalProperties.kind = "schema"
            THEN <<Call("schemaToTypeScript", schema.additionalProperties.schema, r)>>
            ELSE <<>>
    IN  IF call.function = "parseSchema"
        THEN IF Truthy(schema.ref)
             THEN IF resolvesRef(index, schema.ref)
                  THEN <<Call("schemaToTypeScript", resolveRef(index, schema.ref), Resolved(r))>>
                  ELSE <<>>
             ELSE IF schema.type = t_array /\ schema.items # <<>>
             THEN <<Call("parseSchema", schema.items[1], r)>>
             ELSE IF schema.enum # <<>> THEN <<>>
             ELSE IF Members(schema) # <<>> THEN each("parseSchema", Members(schema))
             ELSE IF schema.type = t_object \/ schema.properties # <<>>
             THEN <<Call("objectSchemaToTypeScript", schema, r)>>
                    \o each("parseSchema", propertySchemas)
             ELSE <<Call("schemaToTypeScript", schema, r)>>
        ELSE IF call.function = "schemaToTypeScript"
        THEN IF Truthy(schema.ref)
             THEN IF resolvesRef(index, schema.ref)
                  THEN <<Call("schemaToTypeScript", resolveRef(index, schema.ref), Resolved(r))>>
                  ELSE <<>>
             ELSE IF schema.type = t_array /\ schema.items # <<>>
             THEN <<Call("schemaToTypeScript", schema.items[1], r)>>
             ELSE IF schema.enum # <<>> THEN <<>>
             ELSE IF Members(schema) # <<>> THEN each("schemaToTypeScript", Members(schema))
             ELSE IF schema.type = t_object \/ schema.properties # <<>>
             THEN <<Call("objectSchemaToTypeScript", schema, r)>>
             ELSE dictionary
        ELSE IF schema.properties = <<>> THEN dictionary
             ELSE each("schemaToTypeScript", propertySchemas)

\* the calls that a call of parseSchema (230-307), schemaToTypeScript (312-370)
\* or objectSchemaToTypeScript (375-398) makes, in their order
Callees(index, call) ==
    LET schema == call.schema
        r == call.resolutions
        each(function, list) == [i \in DOMAIN list |-> Call(function, list[i], r)]
        propertySchemas ==
            IF schema.properties = <<>> THEN <<>>
            ELSE [i \in DOMAIN schema.properties[1] |-> schema.properties[1][i].schema]
        dictionary ==
            IF schema.additionalProperties.kind = "schema"
            THEN <<Call("schemaToTypeScript", schema.additionalProperties.schema, r)>>
            ELSE <<>>
    IN  IF call.function = "parseSchema"
        THEN IF Truthy(schema.ref)
             THEN IF resolvesRef(index, schema.ref)
                  THEN <<Call("schemaToTypeScript", resolveRef(index, schema.ref), Resolved(r))>>
                  ELSE <<>>
             ELSE IF schema.type = t_array /\ schema.items # <<>>
             THEN <<Call("parseSchema", schema.items[1], r)>>
             ELSE IF schema.enum # <<>> THEN <<>>
             ELSE IF Members(schema) # <<>> THEN each("parseSchema", Members(schema))
             ELSE IF schema.type = t_object \/ schema.properties # <<>>
             THEN <<Call("objectSchemaToTypeScript", schema, r)>>
                    \o each("parseSchema", propertySchemas)
             ELSE <<Call("schemaToTypeScript", schema, r)>>
        ELSE IF call.function = "schemaToTypeScript"
        THEN IF Truthy(schema.ref) THEN <<>>
             ELSE IF schema.type = t_array /\ schema.items # <<>>
             THEN <<Call("schemaToTypeScript", schema.items[1], r)>>
             ELSE IF schema.enum # <<>> THEN <<>>
             ELSE IF Members(schema) # <<>> THEN each("schemaToTypeScript", Members(schema))
             ELSE IF schema.type = t_object \/ schema.properties # <<>>
             THEN <<Call("objectSchemaToTypeScript", schema, r)>>
             ELSE dictionary
        ELSE IF schema.properties = <<>> THEN dictionary
             ELSE each("schemaToTypeScript", propertySchemas)

\* the named schemas of a document that refer to themselves and to each other
w_Node == <<"N","o","d","e">>
w_Ping == <<"P","i","n","g">>
w_Pong == <<"P","o","n","g">>
w_Tree == <<"T","r","e","e">>

CyclicDefinitions(swagger2) ==
    { <<[name |-> w_Node,
         schema |-> [EmptySchema EXCEPT !.type = t_object,
                        !.properties = << <<[name |-> <<"n","e","x","t">>, schema |-> RefTo(swagger2, w_Node)],
                                            [name |-> <<"v","a","l","u","e">>, schema |-> StringSchema]>> >>]]>>,
      <<[name |-> w_Ping,
         schema |-> [EmptySchema EXCEPT
                        !.properties = << <<[name |-> <<"p","o","n","g">>, schema |-> RefTo(swagger2, w_Pong)]>> >>]],
        [name |-> w_Pong,
         schema |-> [EmptySchema EXCEPT !.type = t_array,
                        !.items = <<RefTo(swagger2, w_Ping)>>]]>>,
      <<[name |-> w_Tree,
         schema |-> [EmptySchema EXCEPT !.type = t_object,
                        !.properties = << <<[name |-> <<"p","a","r","e","n","t">>, schema |-> RefTo(swagger2, w_Tree)],
                                            [name |-> <<"c","h","i","l","d","r","e","n">>,
                                             schema |-> [EmptySchema EXCEPT !.type = t_array,
                                                            !.items = <<RefTo(swagger2, w_Tree)>>]]>> >>]]>>,
      <<[name |-> w_Node,
         schema |-> [EmptySchema EXCEPT
                        !.allOf = << <<RefTo(swagger2, w_Node), StreetObject>> >>]]>>,
      <<[name |-> w_Tree,
         schema |-> [EmptySchema EXCEPT !.type = t_object,
                        !.additionalProperties =
                            [kind |-> "schema", schema |-> RefTo(swagger2, w_Tree)]]]>> }

\* the schemas to render: each named schema itself, a reference to it, an
\* array of references to it, an object with it as a property, a union with it
RootSchemas(swagger2, definitions) ==
    UNION { { definitions[i].schema,
              RefTo(swagger2, definitions[i].name),
              [EmptySchema EXCEPT !.type = t_array,
                    !.items = <<RefTo(swagger2, definitions[i].name)>>],
              [EmptySchema EXCEPT !.type = t_object,
                    !.properties = << <<[name |-> <<"h","o","m","e">>,
                                         schema |-> RefTo(swagger2, definitions[i].name)]>> >>],
              [EmptySchema EXCEPT
                    !.oneOf = << <<RefTo(swagger2, definitions[i].name), StringSchema>> >>] } :
            i \in DOMAIN definitions }

RenderInputs(swagger2) ==
    UNION { { [document |-> Document(IF swagger2 THEN v_2_0 ELSE None,
                                     IF swagger2 THEN None ELSE v_3_0_1, <<>>, definitions),
               schema |-> schema] : schema \in RootSchemas(swagger2, definitions) } :
            definitions \in CyclicDefinitions(swagger2) }

InitRender ==
    /\ pc = "render"
    /\ \E swagger2 \in BOOLEAN : \E input \in RenderInputs(swagger2) :
        /\ document = input.document
        /\ schemas = loadSchemas(input.document)
        /\ rendering = [schema |-> input.schema,
                        calls |-> <<Call("parseSchema", input.schema, 0)>>]
    /\ fileWriter = None
    /\ entryPoint = None
    /\ path = None
    /\ serviceName = None
    /\ method = None
    /\ folders = None
    /\ names = None
    /\ typeGenerator = None
    /\ options = None
    /\ endpoints = None
    /\ groups = None
    /\ modules = None
    /\ result = None
    /\ config = None
    /\ run = None
    /\ previous = <<>>

renderUnchanged ==
    <<config, run, previous, fileWriter, entryPoint, path, serviceName, method, folders, names, typeGenerator,
      options, document, schemas, endpoints, groups, modules>>

\* the next call is made: its own calls take its place
MakeCall ==
    /\ pc = "render"
    /\ rendering.calls # <<>>
    /\ Len(Callees(schemas, Head(rendering.calls))) + Len(rendering.calls) - 1 <= MaxCalls
    /\ rendering' = [rendering EXCEPT
                        !.calls = Callees(schemas, Head(rendering.calls)) \o Tail(@)]
    /\ UNCHANGED <<pc, result, renderUnchanged>>

\* every call has returned: parseSchema returns its ParsedSchema
ReturnParsedSchema ==
    /\ pc = "render"
    /\ rendering.calls = <<>>
    /\ result' = parseSchema(schemas, rendering.schema, <<"B","o","d","y">>)
    /\ pc' = "rendered"
    /\ UNCHANGED <<rendering, renderUnchanged>>

NextRender == MakeCall \/ ReturnParsedSchema

\* a call that is to be made is made
SpecRender == InitRender /\ [][NextRender]_vars /\ WF_vars(MakeCall)

-----------------------------------------------------------------------------
(* SpecRun: runGenerator (naming.ts) over the configured sources           *)
(*                                                                         *)
(* What lies behind a source (the file system, the network and the         *)
(* generator's result for the document found there) is carried by the      *)
(* source as its behaviour.                                                *)

MaxSources == 2
MaxJsonFiles == 2

\* what processSingleSource / generateFromUrl does for one document
Outcomes == {"success", "failed", "throws"}

\* the GeneratorResult of a failure with one error message
FailedResult(message) == [success |-> FALSE, errors |-> <<message>>]

\* the GeneratorResult of a generation that wrote its files
SuccessfulResult == [success |-> TRUE, errors |-> <<>>]

\* a promise that is fulfilled with a value
Fulfilled(value) == [status |-> "fulfilled", value |-> value, reason |-> "none"]

\* a promise that is rejected with an error
Rejected(reason) == [status |-> "rejected", value |-> <<>>, reason |-> reason]

\* the result with which the generator answers for a document
GeneratorResultOf(outcome) ==
    IF outcome = "success" THEN SuccessfulResult ELSE FailedResult("Generation failed")

\* processDirectory: one result per JSON file up to the first one that throws,
\* a failure in its place; the files after it are not processed
processDirectory(files) ==
    IF files = <<>> THEN <<FailedResult("No JSON files found in directory")>>
    ELSE LET thrown == {i \in DOMAIN files : files[i] = "throws"}
             last == IF thrown = {} THEN Len(files)
                     ELSE (CHOOSE i \in thrown : \A j \in thrown : i <= j) - 1
         IN  [i \in 1..last |-> GeneratorResultOf(files[i])]
                \o (IF thrown = {} THEN <<>> ELSE <<FailedResult("Failed to read directory")>>)

\* processSource: the promise it returns, settled
processSource(sourceConfig) ==
    IF sourceConfig.type = "file"
    THEN IF sourceConfig.stat = "missing"
         THEN Fulfilled(<<FailedResult("Failed to access source")>>)
         ELSE IF sourceConfig.stat = "directory"
         THEN Fulfilled(processDirectory(sourceConfig.files))
         ELSE IF sourceConfig.outcome = "throws"
         THEN Fulfilled(<<FailedResult("Failed to access source")>>)
         ELSE Fulfilled(<<GeneratorResultOf(sourceConfig.outcome)>>)
    ELSE IF sourceConfig.outcome = "throws"
         THEN Rejected("Error")
         ELSE Fulfilled(<<GeneratorResultOf(sourceConfig.outcome)>>)

\* the number of results of a list with the given success flag
CountOf(sourceResults, success) ==
    Cardinality({i \in DOMAIN sourceResults : sourceResults[i].success = success})

\* runGenerator: what one settled promise adds to the results
Collect(results, source, settled) ==
    IF settled.status = "fulfilled"
    THEN [results EXCEPT
            !.results = Append(@, [source |-> source.source, results |-> settled.value]),
            !.successful = @ + CountOf(settled.value, TRUE),
            !.failed = @ + CountOf(settled.value, FALSE)]
    ELSE [results EXCEPT
            !.failed = @ + 1,
            !.results = Append(@, [source |-> source.source,
                                   results |-> <<FailedResult(settled.reason)>>])]

RECURSIVE CollectAll(_, _, _, _)
\* runGenerator: the loop over allResults of the parallel mode
CollectAll(results, activeSources, allResults, i) ==
    IF i > Len(allResults) THEN results
    ELSE CollectAll(Collect(results, activeSources[i], allResults[i]),
                    activeSources, allResults, i + 1)

\* a promise that has not settled
Pending == [status |-> "pending", value |-> <<>>, reason |-> "none"]

\* the JSON files of a directory; what lies behind a file that throws is
\* never looked at
JsonFiles ==
    {files \in SeqsUpTo(Outcomes, MaxJsonFiles) :
        \A i \in DOMAIN files : files[i] = "throws" => i = Len(files)}

\* the sources: a URL, a file that is missing, a file, a directory of JSON files
SourceBehaviours ==
    { [type |-> "url", stat |-> "none", outcome |-> outcome, files |-> <<>>] :
            outcome \in Outcomes }
        \cup {[type |-> "file", stat |-> "missing", outcome |-> "none", files |-> <<>>]}
        \cup { [type |-> "file", stat |-> "file", outcome |-> outcome, files |-> <<>>] :
                    outcome \in Outcomes }
        \cup { [type |-> "file", stat |-> "directory", outcome |-> "none", files |-> files] :
                    files \in JsonFiles }

\* a source with its behaviour; what lies behind a skipped source is never looked at
SourceVariants ==
    { [skip |-> FALSE, behaviour |-> behaviour] : behaviour \in SourceBehaviours }
        \cup {[skip |-> TRUE,
               behaviour |-> [type |-> "url", stat |-> "none", outcome |-> "success",
                              files |-> <<>>]]}

SourceNames == <<"source1", "source2", "source3", "source4", "source5">>

\* SwaggerSourceConfig, with the behaviour of what lies behind the source
SourceConfig(i, variant) ==
    [source |-> SourceNames[i], skip |-> variant.skip, type |-> variant.behaviour.type,
     stat |-> variant.behaviour.stat, outcome |-> variant.behaviour.outcome,
     files |-> variant.behaviour.files]

\* config.outputDir, as the segments of the path
OutputDir == <<"src", "clients">>

\* AutomationConfig
Configs ==
    { [sources |-> [i \in DOMAIN variants |-> SourceConfig(i, variants[i])],
       parallel |-> parallel,
       cleanOutput |-> cleanOutput,
       outputDir |-> OutputDir] :
            variants \in SeqsUpTo(SourceVariants, MaxSources), parallel \in BOOLEAN,
            cleanOutput \in BOOLEAN }

\* path.join(config.outputDir, 'generatedClients') taken for config.outputDir
generatedClientsDirWhole(c) == c.outputDir

\* path.join(config.outputDir, 'generatedClients')
generatedClientsDir(c) == Append(c.outputDir, "generatedClients")

\* a call of fs.promises.rm or fs.promises.mkdir on a directory, or of
\* processSource on a source
FsCall(op, target) == [op |-> op, target |-> target]

InitRun ==
    /\ pc = "run"
    /\ config \in Configs
    /\ run = None
    /\ previous = <<>>
    /\ rendering = None
    /\ fileWriter = None
    /\ entryPoint = None
    /\ path = None
    /\ serviceName = None
    /\ method = None
    /\ folders = None
    /\ names = None
    /\ typeGenerator = None
    /\ options = None
    /\ document = None
    /\ schemas = None
    /\ endpoints = None
    /\ groups = None
    /\ modules = None
    /\ result = None

nonRunVars == <<previous, rendering, fileWriter, entryPoint, path, serviceName, method, folders, names, typeGenerator, generateVars>>

\* runGenerator up to the test activeSources.length === 0
FilterSources ==
    /\ pc = "run"
    /\ LET activeSources == SelectSeq(config.sources, LAMBDA s : ~s.skip)
           skippedSources == SelectSeq(config.sources, LAMBDA s : s.skip)
       IN  /\ run' = [activeSources |-> activeSources,
                      promises |-> [i \in DOMAIN activeSources |-> Pending],
                      called |-> {},
                      operations |-> <<>>,
                      results |-> [totalSources |-> Len(config.sources),
                                   successful |-> 0,
                                   failed |-> 0,
                                   skipped |-> Len(skippedSources),
                                   results |-> <<>>]]
           /\ pc' = IF Len(activeSources) = 0 THEN "returned"
                    ELSE IF config.cleanOutput THEN "clean"
                    ELSE "mkdir"
    /\ UNCHANGED <<config, nonRunVars>>

\* cleanDirectory(generatedClientsDir), which swallows the error of fs.promises.rm
CleanDirectory ==
    /\ pc = "clean"
    /\ run' = [run EXCEPT
                !.operations = Append(@, FsCall("rm", generatedClientsDir(config)))]
    /\ pc' = "mkdir"
    /\ UNCHANGED <<config, nonRunVars>>

\* fs.promises.mkdir(generatedClientsDir)
MakeDirectory ==
    /\ pc = "mkdir"
    /\ run' = [run EXCEPT
                !.operations = Append(@, FsCall("mkdir", generatedClientsDir(config)))]
    /\ pc' = IF config.parallel THEN "parallel" ELSE "sequential"
    /\ UNCHANGED <<config, nonRunVars>>

\* fs.promises.mkdir rejects: the error leaves runGenerator
MakeDirectoryFails ==
    /\ pc = "mkdir"
    /\ pc' = "rejected"
    /\ UNCHANGED <<config, run, nonRunVars>>

\* one round of the sequential loop, without its catch: the rejection of
\* processSource leaves runGenerator
ProcessNextSourceUncaught ==
    /\ pc = "sequential"
    /\ LET i == Len(run.results.results) + 1
           source == run.activeSources[i]
       IN  /\ run' = [run EXCEPT
                        !.called = @ \cup {source.source},
                        !.operations = Append(@, FsCall("processSource", <<source.source>>)),
                        !.results = IF processSource(source).status = "fulfilled"
                                    THEN Collect(@, source, processSource(source))
                                    ELSE @]
           /\ pc' = IF processSource(source).status = "rejected" THEN "rejected"
                    ELSE IF i = Len(run.activeSources) THEN "returned"
                    ELSE "sequential"
    /\ UNCHANGED <<config, nonRunVars>>

\* one round of the sequential loop: try { await processSource } catch
ProcessNextSource ==
    /\ pc = "sequential"
    /\ LET i == Len(run.results.results) + 1
           source == run.activeSources[i]
       IN  /\ run' = [run EXCEPT
                        !.called = @ \cup {source.source},
                        !.operations = Append(@, FsCall("processSource", <<source.source>>)),
                        !.results = Collect(@, source, processSource(source))]
           /\ pc' = IF i = Len(run.activeSources) THEN "returned" ELSE "sequential"
    /\ UNCHANGED <<config, nonRunVars>>

\* parallel mode: one of the promises of activeSources.map(processSource) settles
SettlePromise ==
    /\ pc = "parallel"
    /\ \E i \in DOMAIN run.promises :
        /\ run.promises[i] = Pending
        /\ run' = [run EXCEPT
                    !.called = @ \cup {run.activeSources[i].source},
                    !.operations = Append(@, FsCall("processSource",
                                                    <<run.activeSources[i].source>>)),
                    !.promises[i] = processSource(run.activeSources[i])]
    /\ UNCHANGED <<pc, config, nonRunVars>>

\* parallel mode: Promise.allSettled has resolved; the loop over allResults
CollectSettled ==
    /\ pc = "parallel"
    /\ \A i \in DOMAIN run.promises : run.promises[i] # Pending
    /\ run' = [run EXCEPT
                !.results = CollectAll(@, run.activeSources, run.promises, 1)]
    /\ pc' = "returned"
    /\ UNCHANGED <<config, nonRunVars>>

NextRun ==
    \/ FilterSources
    \/ CleanDirectory
    \/ MakeDirectory
    \/ MakeDirectoryFails
    \/ ProcessNextSource
    \/ SettlePromise
    \/ CollectSettled

SpecRun == InitRun /\ [][NextRun]_vars

-----------------------------------------------------------------------------
(* Properties of the generation run                                       *)

\* the run has parsed the document
Parsed == pc \in {"types", "group", "groups"} \/ (pc = "done" /\ result.success)

\* generateAllTypes(endpoints) has run
TypesGenerated == pc \in {"group", "groups"} \/ (pc = "done" /\ result.success)

\* the run has ended with the files written
Written == pc = "done" /\ result.success

\* the parsed endpoint of an operation of a group
EndpointOf(ep) ==
    CHOOSE e \in Range(endpoints) : e.path = ep.path /\ e.method = ep.method

\* the operation object of the document from which an endpoint was parsed
PathItemOf(p) == (CHOOSE entry \in Range(document.paths[1]) : entry.path = p).pathItem
MethodKey(m) == CHOOSE k \in Range(Methods) : MethodToUpperCase(k) = m
OperationOf(e) == PathItemOf(e.path)[MethodKey(e.method)][1]

RequestTypeNameOf(e) ==
    generateTypeName(e.method, extractResourceName(e.path), extractPathParams(e.path), Request)
ResponseTypeNameOf(e) ==
    generateTypeName(e.method, extractResourceName(e.path), extractPathParams(e.path), Response)

Emitted == {g \in DOMAIN modules : ~modules[g].skipped}

\* the schemas of the document by name, in the order of the document
NamedSchemaEntries == SelectSeq(schemas, LAMBDA entry : ~startsWith(entry.key, <<"#","/">>))

\* C2: when two schemas of the document yield the same type name and render
\* to different bodies, generateAllTypes declares both: the first under the
\* base name and the second under the base name followed by 1
C2_CollidingSchemasBothDeclared ==
    TypesGenerated =>
        \A i, j \in DOMAIN NamedSchemaEntries :
            LET base == toPascalCase(NamedSchemaEntries[i].key)
                first == schemaToTypeScript(NamedSchemaEntries[i].value)
                second == schemaToTypeScript(NamedSchemaEntries[j].value)
            IN  (i < j /\ toPascalCase(NamedSchemaEntries[j].key) = base /\ first # second)
                    => /\ MapGet(typeGenerator.typeDefinitions, base) = first
                       /\ MapHas(typeGenerator.typeDefinitions, base \o NumberToString(1))
                       /\ MapGet(typeGenerator.typeDefinitions, base \o NumberToString(1)) = second

\* the operations of all groups, as <<group, position>> pairs
GroupedOperations ==
    {gk \in (DOMAIN groups) \X (1..Len(endpoints)) :
        gk[2] \in DOMAIN groups[gk[1]].value.endpoints}

\* C3: grouping is a partition of the extracted operations: every operation of
\* parseEndpoints is in exactly one group and once, every operation of a group
\* is an extracted operation, and the group of an operation is the folder that
\* determineFolderStructure gives for its path and the service name; the
\* modules are generated from the same operations
C3_GroupingIsPartition ==
    (pc \in {"groups", "done"} /\ (pc = "done" => result.success)) =>
        /\ \A i \in DOMAIN endpoints :
                \E gk \in GroupedOperations :
                    /\ groups[gk[1]].value.endpoints[gk[2]]
                            = [path |-> endpoints[i].path, method |-> endpoints[i].method]
                    /\ groups[gk[1]].value.folder
                            = determineFolderStructure(endpoints[i].path, serviceName)
                    /\ groups[gk[1]].key
                            = Join(determineFolderStructure(endpoints[i].path, serviceName), <<"/">>)
                    /\ \A other \in GroupedOperations :
                            groups[other[1]].value.endpoints[other[2]]
                                = groups[gk[1]].value.endpoints[gk[2]] => other = gk
        /\ \A gk \in GroupedOperations :
                \E i \in DOMAIN endpoints :
                    groups[gk[1]].value.endpoints[gk[2]]
                        = [path |-> endpoints[i].path, method |-> endpoints[i].method]
        /\ \A g, h \in DOMAIN groups : groups[g].key = groups[h].key => g = h
        /\ \A g \in DOMAIN modules :
                /\ modules[g].folderPath = groups[g].value.folder
                /\ modules[g].skipped <=> groups[g].value.endpoints = <<>>
                /\ ~modules[g].skipped => modules[g].groupEndpoints = groups[g].value.endpoints

\* a written run with two groups, one of which holds the operations of two paths
C3_Witness ==
    /\ Written
    /\ Len(groups) >= 2
    /\ \E g \in DOMAIN groups :
            \E k, l \in DOMAIN groups[g].value.endpoints :
                groups[g].value.endpoints[k].path # groups[g].value.endpoints[l].path

\* C6: in every generated client module the function names of the operations
\* of the group are pairwise distinct
C6_FunctionNamesDistinct ==
    Written =>
        \A g \in Emitted :
            \A i, j \in DOMAIN modules[g].functions :
                i # j => modules[g].functions[i].name # modules[g].functions[j].name

\* C7: a document with neither the swagger 2.0 marker nor an openapi string
\* that begins with 3. ends in a failed result with no file written
C7_UnsupportedVersionFails ==
    (pc = "done" /\ ~isSwagger2(document) /\ ~isOpenAPI3(document)) =>
        /\ ~result.success
        /\ result.filesWritten = <<>>

\* the parameters of an endpoint at a location
ParametersAt(e, location) ==
    CASE location = "path" -> e.pathParams
      [] location = "query" -> e.queryParams
      [] location = "header" -> e.headerParams

\* C8: a parameter that the path item and the operation both declare with the
\* same name and location is in the extracted operation once, with the type
\* and the required flag of the operation's declaration
C8_OperationLevelParameterWins ==
    Parsed =>
        \A i \in DOMAIN endpoints :
            LET pathLevel == PathItemOf(endpoints[i].path).parameters
                operationLevel == OperationOf(endpoints[i]).parameters
            IN  \A a \in DOMAIN pathLevel, b \in DOMAIN operationLevel :
                    (/\ pathLevel[a].name = operationLevel[b].name
                     /\ pathLevel[a].in = operationLevel[b].in
                     /\ operationLevel[b].in \in {"path", "query", "header"})
                        => SelectSeq(ParametersAt(endpoints[i], operationLevel[b].in),
                                     LAMBDA q : q.name = operationLevel[b].name)
                            = <<[name |-> operationLevel[b].name,
                                 required |-> operationLevel[b].required,
                                 type |-> parameterToTypeScript(operationLevel[b])]>>

\* the operation declares a success response and none of its success
\* responses has a schema
DeclaresNoSchema(e) ==
    LET success == SelectSeq(OperationOf(e).responses,
                             LAMBDA r : arrayIncludes(successCodes, r.statusCode))
    IN  /\ success # <<>>
        /\ \A k \in DOMAIN success : ResponseSchema(document, success[k].response) = <<>>

\* the first success response with a schema renders to an empty object
RendersEmptyObject(e) ==
    LET withSchema == SelectSeq(successCodes, LAMBDA code : MapHas(e.responses, code))
    IN  /\ withSchema # <<>>
        /\ SelectSeq(MapGet(e.responses, withSchema[1]).typeDefinition,
                     LAMBDA c : ~IsWhitespace(c)) = <<"{","}">>

FunctionOf(g, ep) ==
    CHOOSE f \in Range(modules[g].functions) : f.path = ep.path /\ f.method = ep.method

ReferencesResponseType(g, ep) ==
    FunctionOf(g, ep).responseTypeName = ResponseTypeNameOf(ep)

ImportsResponseType(g, ep) ==
    arrayIncludes(modules[g].typeImports, ResponseTypeNameOf(ep))

\* C9: an operation whose success response has no schema and an operation
\* whose success response renders to an empty object both get the response
\* type body any, and their functions reference and import the response type
\* alike
C9_NoSchemaAndEmptyObjectAlike ==
    Written =>
        \A g, h \in Emitted :
            \A k \in DOMAIN modules[g].groupEndpoints, l \in DOMAIN modules[h].groupEndpoints :
                LET none == modules[g].groupEndpoints[k]
                    empty == modules[h].groupEndpoints[l]
                IN  (DeclaresNoSchema(EndpointOf(none)) /\ RendersEmptyObject(EndpointOf(empty)))
                        => /\ MapGet(modules[g].typeDefinitions, ResponseTypeNameOf(none)) = t_any
                           /\ MapGet(modules[h].typeDefinitions, ResponseTypeNameOf(empty)) = t_any
                           /\ ReferencesResponseType(g, none) <=> ReferencesResponseType(h, empty)
                           /\ ImportsResponseType(g, none) <=> ImportsResponseType(h, empty)

\* the response type body of an operation: the rendered schema of the first
\* success status that has a schema, any when there is none or when it is an
\* empty object
ExpectedResponseBody(e) ==
    LET withSchema == SelectSeq(successCodes, LAMBDA code : MapHas(e.responses, code))
    IN  IF withSchema = <<>> \/ RendersEmptyObject(e) THEN t_any
        ELSE MapGet(e.responses, withSchema[1]).typeDefinition

\* C10: for every operation of a generated module the response type is
\* emitted with the body of the first success status that has a schema, or
\* any, and the request type is emitted exactly when the operation has a
\* request body
C10_ResponseAndRequestTypes ==
    Written =>
        \A g \in Emitted :
            \A k \in DOMAIN modules[g].groupEndpoints :
                LET e == EndpointOf(modules[g].groupEndpoints[k])
                IN  /\ MapHas(modules[g].typeDefinitions, ResponseTypeNameOf(e))
                    /\ MapGet(modules[g].typeDefinitions, ResponseTypeNameOf(e))
                            = ExpectedResponseBody(e)
                    /\ MapHas(modules[g].typeDefinitions, RequestTypeNameOf(e))
                            <=> e.requestBody # <<>>



\* the request body schema of an operation object, as an optional schema
RequestSchemaOf(operation) ==
    IF isSwagger2(document)
    THEN LET bodyParams == SelectSeq(operation.parameters, LAMBDA q : q.in = "body")
         IN  IF bodyParams = <<>> THEN <<>> ELSE bodyParams[1].schema
    ELSE IF operation.requestBody = <<>> THEN <<>>
    ELSE LET json == SelectSeq(operation.requestBody[1].content,
                               LAMBDA entry : entry.mediaType = ApplicationJson)
         IN  IF json # <<>> THEN json[1].schema ELSE <<>>

\* the schema of the 200 response of an operation object, as an optional schema
AnswerSchemaOf(operation) ==
    LET ok == SelectSeq(operation.responses, LAMBDA r : r.statusCode = <<"2","0","0">>)
    IN  IF ok = <<>> THEN <<>>
        ELSE IF isSwagger2(document) THEN ok[1].response.schema
        ELSE IF ok[1].response.content = <<>> THEN <<>>
        ELSE LET json == SelectSeq(ok[1].response.content[1],
                                   LAMBDA entry : entry.mediaType = ApplicationJson)
             IN  IF json # <<>> THEN json[1].schema ELSE <<>>

IsRef(schema) == Truthy(schema.ref)
IsArrayOfRef(schema) ==
    ~IsRef(schema) /\ schema.type = t_array /\ schema.items # <<>> /\ IsRef(schema.items[1])
ReferencedName(schema) == toPascalCase(extractRefName(schema.ref))

\* a reference renders as the name of the referenced type
RendersByName(schema, body) ==
    /\ IsRef(schema) => body = ReferencedName(schema)
    /\ IsArrayOfRef(schema) => body = ReferencedName(schema.items[1]) \o <<"[","]">>

\* C11: a request body or a response body that is a reference, or an array of
\* references, is emitted as the name of the referenced type (followed by []
\* for the array), never as a copy of the referenced schema's body
C11_ReferenceRendersAsName ==
    Written =>
        \A g \in Emitted :
            \A k \in DOMAIN modules[g].groupEndpoints :
                LET e == EndpointOf(modules[g].groupEndpoints[k])
                    requestSchema == RequestSchemaOf(OperationOf(e))
                    answerSchema == AnswerSchemaOf(OperationOf(e))
                IN  /\ requestSchema # <<>> =>
                            RendersByName(requestSchema[1],
                                MapGet(modules[g].typeDefinitions, RequestTypeNameOf(e)))
                    /\ answerSchema # <<>> =>
                            RendersByName(answerSchema[1],
                                MapGet(modules[g].typeDefinitions, ResponseTypeNameOf(e)))


\* C12: without a configured service name, the service name is ApiService
\* when the title is absent or empty, and otherwise the PascalCase of the
\* title without the words api and service, followed by Service
C12_ServiceNameFromTitle ==
    (Parsed /\ ~Truthy(options.serviceName)) =>
        serviceName = IF Truthy(document.title)
                      THEN toPascalCase(RemoveGenericWords(document.title)) \o <<"S","e","r","v","i","c","e">>
                      ELSE <<"A","p","i","S","e","r","v","i","c","e">>


\* a function of a module references a type name: as the type of its data
\* parameter or as its response type
ReferencesType(f, name) ==
    \/ f.responseTypeName = name
    \/ \E i \in DOMAIN f.params : f.params[i] = <<"d","a","t","a",":"," ">> \o name

\* C13: every name in the import list of a client module is referenced by one
\* of its functions, as the type of a data parameter or as a response type
C13_ImportsAreReferenced ==
    Written =>
        \A g \in Emitted :
            \A i \in DOMAIN modules[g].typeImports :
                \E k \in DOMAIN modules[g].functions :
                    ReferencesType(modules[g].functions[k], modules[g].typeImports[i])


RECURSIVE SplitOn(_, _, _)
\* the parts of s between the occurrences of the separator
SplitOn(s, separator, cur) ==
    IF s = <<>> THEN <<cur>>
    ELSE IF startsWith(s, separator)
    THEN <<cur>> \o SplitOn(SubSeq(s, Len(separator) + 1, Len(s)), separator, <<>>)
    ELSE SplitOn(Tail(s), separator, Append(cur, Head(s)))

\* the property lines of a rendered object body
PropertyLines(body) ==
    SplitOn(SubSeq(body, 5, Len(body) - 2), <<";","\n"," "," ">>, <<>>)

\* the declarations generated from a named schema that has properties
ObjectDeclarations ==
    {i \in DOMAIN typeGenerator.generatedTypes :
        LET source == typeGenerator.generatedTypes[i].value.source
        IN  /\ startsWith(source, <<"s","c","h","e","m","a",":">>)
            /\ MapGet(schemas, SubSeq(source, 8, Len(source))).properties # <<>>
            /\ MapGet(schemas, SubSeq(source, 8, Len(source))).properties[1] # <<>>}

SchemaOfDeclaration(i) ==
    LET source == typeGenerator.generatedTypes[i].value.source
    IN  MapGet(schemas, SubSeq(source, 8, Len(source)))

\* C14: every property of a rendered object body ends with the marker ? exactly
\* when its name is not in required, then a colon and the type, then | null
\* exactly when the property schema is nullable
C14_OptionalAndNullMarkers ==
    TypesGenerated =>
        \A d \in ObjectDeclarations :
            LET schema == SchemaOfDeclaration(d)
                lines == PropertyLines(typeGenerator.generatedTypes[d].value.definition)
            IN  /\ Len(lines) = Len(schema.properties[1])
                /\ \A i \in DOMAIN lines :
                        LET property == schema.properties[1][i]
                            marked == (IF arrayIncludes(schema.required, property.name)
                                       THEN <<>> ELSE <<"?">>)
                                \o <<":"," ">>
                                \o schemaToTypeScript([property.schema EXCEPT !.nullable = FALSE])
                                \o (IF property.schema.nullable THEN <<" ","|"," ","n","u","l","l">> ELSE <<>>)
                        IN  lines[i] \in {property.name \o marked,
                                          <<"'">> \o property.name \o <<"'">> \o marked}

\* the characters a bare property name is made of
IsIdentifierChar(c) == IsAlphaNumeric(c) \/ c \in {"_", "$"}

\* C15: a property name with a character outside [A-Za-z0-9_$] or with a
\* leading digit is emitted as a quoted key, every other name bare
C15_PropertyNamesQuoted ==
    TypesGenerated =>
        \A d \in ObjectDeclarations :
            LET schema == SchemaOfDeclaration(d)
                lines == PropertyLines(typeGenerator.generatedTypes[d].value.definition)
            IN  /\ Len(lines) = Len(schema.properties[1])
                /\ \A i \in DOMAIN lines :
                        LET propName == schema.properties[1][i].name
                            quoted == \/ \E k \in DOMAIN propName : ~IsIdentifierChar(propName[k])
                                      \/ propName[1] \in Digits
                            key == IF quoted THEN <<"'">> \o propName \o <<"'">> ELSE propName
                        IN  \/ startsWith(lines[i], key \o <<":"," ">>)
                            \/ startsWith(lines[i], key \o <<"?",":"," ">>)


\* the media type objects of a content that declare application/json
JsonOf(content) == SelectSeq(content, LAMBDA entry : entry.mediaType = ApplicationJson)

\* the schema the claim selects: that of application/json when it is declared,
\* otherwise that of the first declared media type
ClaimedSchema(content) ==
    IF JsonOf(content) # <<>> THEN JsonOf(content)[1].schema
    ELSE IF content # <<>> THEN content[1].schema
    ELSE <<>>

\* the schema selected when application/json counts only if it has a schema
PreferredSchema(content) ==
    IF \E i \in DOMAIN content :
            content[i].mediaType = ApplicationJson /\ content[i].schema # <<>>
    THEN JsonOf(content)[1].schema
    ELSE IF content # <<>> THEN content[1].schema
    ELSE <<>>

\* the parsed request body of an OpenAPI 3 endpoint is that of the schema
RequestBodyIs(e, schema) ==
    e.requestBody = IF schema = <<>> THEN <<>>
                    ELSE <<parseSchema(schemas, schema[1], <<"R","e","q","u","e","s","t","B","o","d","y">>)>>

\* the parsed response of an OpenAPI 3 endpoint for a status code is that of the schema
ResponseIs(e, statusCode, schema) ==
    IF schema = <<>> THEN ~MapHas(e.responses, statusCode)
    ELSE /\ MapHas(e.responses, statusCode)
         /\ MapGet(e.responses, statusCode)
                = parseSchema(schemas, schema[1], <<"R","e","s","p","o","n","s","e">> \o statusCode)

\* the OpenAPI 3 endpoints of the run
OpenAPI3Endpoints ==
    IF Parsed /\ isOpenAPI3(document) /\ ~isSwagger2(document) THEN DOMAIN endpoints ELSE {}

\* C16: the request body schema and each response schema of an OpenAPI 3
\* operation is the schema of application/json whenever that media type is
\* declared, and otherwise that of the first declared media type
C16_JsonWheneverDeclared ==
    \A i \in OpenAPI3Endpoints :
        LET operation == OperationOf(endpoints[i])
        IN  /\ operation.requestBody # <<>> =>
                    RequestBodyIs(endpoints[i], ClaimedSchema(operation.requestBody[1].content))
            /\ \A k \in DOMAIN operation.responses :
                    operation.responses[k].response.content # <<>> =>
                        ResponseIs(endpoints[i], operation.responses[k].statusCode,
                                   ClaimedSchema(operation.responses[k].response.content[1]))

\* C16, amended: the schema is that of application/json whenever that media
\* type is declared with a schema, and otherwise that of the first declared
\* media type, none when that one has no schema
C16_JsonWheneverItHasSchema ==
    \A i \in OpenAPI3Endpoints :
        LET operation == OperationOf(endpoints[i])
        IN  /\ RequestBodyIs(endpoints[i],
                    IF operation.requestBody = <<>> THEN <<>>
                    ELSE PreferredSchema(operation.requestBody[1].content))
            /\ \A k \in DOMAIN operation.responses :
                    ResponseIs(endpoints[i], operation.responses[k].statusCode,
                        IF operation.responses[k].response.content = <<>> THEN <<>>
                        ELSE PreferredSchema(operation.responses[k].response.content[1]))

\* a request body that declares text/plain with a schema before application/json
\* with a schema has been parsed to the schema of application/json
C16_Witness ==
    \E i \in OpenAPI3Endpoints :
        LET operation == OperationOf(endpoints[i])
        IN  /\ operation.requestBody # <<>>
            /\ operation.requestBody[1].content
                    = <<[mediaType |-> TextPlain, schema |-> <<StringSchema>>],
                        [mediaType |-> ApplicationJson, schema |-> <<IdObject>>]>>
            /\ endpoints[i].requestBody[1].typeDefinition = <<"{","\n"," "," ","i","d",":"," ","n","u","m","b","e","r","\n","}">>


\* the segments of a path that are a parameter in braces, without the braces,
\* in the order of the path
BracedSegments(p) ==
    LET segments == SelectSeq(Split(p, "/"),
                        LAMBDA s : Len(s) > 2 /\ s[1] = "{" /\ s[Len(s)] = "}")
    IN  [i \in DOMAIN segments |-> SubSeq(segments[i], 2, Len(segments[i]) - 1)]

\* the parsed record carries a request body and its method carries one
ExpectsData(e) ==
    e.requestBody # <<>> /\ e.method \in {POST, PUT, PATCH, DELETE}

\* the number of parameters before the trailing options parameter
CountBeforeOptions(e) ==
    Len(BracedSegments(e.path)) + (IF ExpectsData(e) THEN 1 ELSE 0)
        + (IF e.queryParams # <<>> THEN 1 ELSE 0)

\* the functions of the emitted modules, each with its parsed record
GeneratedFunctions ==
    IF Written
    THEN { [function |-> modules[g].functions[k],
            endpoint |-> EndpointOf(modules[g].functions[k])] :
                <<g, k>> \in UNION { {g} \X DOMAIN modules[g].functions : g \in Emitted } }
    ELSE {}

\* C17: the parameters of every generated function are the path parameters in
\* path order, then data iff the record has a request body and its method is
\* POST, PUT, PATCH or DELETE, then the query parameters object iff the record
\* has query parameters, optional iff all of them are, then options, optional
C17_ParameterOrder ==
    \A gf \in GeneratedFunctions :
        LET e == gf.endpoint
            params == gf.function.params
            braced == BracedSegments(e.path)
            n == Len(braced)
            d == IF ExpectsData(e) THEN 1 ELSE 0
        IN  /\ Len(params) = CountBeforeOptions(e) + 1
            /\ \A i \in 1..n : startsWith(params[i], toCamelCase(braced[i]) \o <<":"," ">>)
            /\ ExpectsData(e) => startsWith(params[n + 1], <<"d","a","t","a",":"," ">>)
            /\ e.queryParams # <<>> =>
                    IF \A i \in DOMAIN e.queryParams : ~e.queryParams[i].required
                    THEN startsWith(params[n + d + 1], <<"p","a","r","a","m","s","?",":"," ","{">>)
                    ELSE startsWith(params[n + d + 1], <<"p","a","r","a","m","s",":"," ","{">>)
            /\ params[Len(params)] = <<"o","p","t","i","o","n","s","?",":"," ","R","e","q","u","e","s","t","O","p","t","i","o","n","s">>

\* a DELETE with two path parameters, a request body and query parameters of
\* which one is required has all four kinds of parameter
C17_Witness ==
    \E gf \in GeneratedFunctions :
        /\ gf.endpoint.method = DELETE
        /\ gf.endpoint.path = ItemPath
        /\ \E i \in DOMAIN gf.endpoint.queryParams : gf.endpoint.queryParams[i].required
        /\ \E i \in DOMAIN gf.endpoint.queryParams : ~gf.endpoint.queryParams[i].required
        /\ Len(gf.function.params) = 5
        /\ startsWith(gf.function.params[1], <<"u","s","e","r","I","d",":"," ","s","t","r","i","n","g">>)
        /\ startsWith(gf.function.params[2], <<"i","d",":"," ","n","u","m","b","e","r">>)
        /\ startsWith(gf.function.params[3], <<"d","a","t","a",":"," ">>)


\* the transport call with the given arguments between the path and the options
TransportCall(e, arguments) ==
    <<"r","e","t","u","r","n"," ","t","h","i","s",".","c","l","i","e","n","t",".">> \o toLowerCase(e.method) \o <<"(">> \o generatePathTemplate(e.path)
        \o <<","," ">> \o arguments
        \o (IF e.queryParams # <<>> THEN <<"r","e","q","O","p","t","i","o","n","s">> ELSE <<"o","p","t","i","o","n","s">>) \o <<")",";">>

\* the last line of the body of a generated function
LastLine(f) == f.body[Len(f.body)]

\* a function declares the parameter data
DeclaresData(f) == \E i \in DOMAIN f.params : startsWith(f.params[i], <<"d","a","t","a",":"," ">>)

\* C18: the transport call is (path, options) for GET, (path, data, options)
\* for POST, PUT, PATCH and DELETE with a request body, (path, {}, options)
\* for POST, PUT and PATCH without one and (path, undefined, options) for DELETE
\* without one; the options are merged with the query parameters when there
\* are any; data is passed only when it is a declared parameter
C18_TransportCallShape ==
    \A gf \in GeneratedFunctions :
        LET e == gf.endpoint
            f == gf.function
        IN  /\ LastLine(f) =
                    IF e.method = GET THEN TransportCall(e, <<>>)
                    ELSE IF e.requestBody # <<>> THEN TransportCall(e, <<"d","a","t","a",","," ">>)
                    ELSE IF e.method = DELETE THEN TransportCall(e, <<"u","n","d","e","f","i","n","e","d",","," ">>)
                    ELSE TransportCall(e, <<"{","}",","," ">>)
            /\ IF e.queryParams # <<>>
               THEN f.body = <<<<"c","o","n","s","t"," ","r","e","q","O","p","t","i","o","n","s"," ","="," ","{"," ",".",".",".","o","p","t","i","o","n","s",","," ","p","a","r","a","m","s"," ","}",";">>, LastLine(f)>>
               ELSE Len(f.body) = 1
            /\ LastLine(f) = TransportCall(e, <<"d","a","t","a",","," ">>) => DeclaresData(f)

\* a DELETE without a request body and with query parameters passes undefined
\* and the merged options
C18_Witness ==
    \E gf \in GeneratedFunctions :
        /\ gf.endpoint.method = DELETE
        /\ gf.endpoint.path = UserPath
        /\ gf.endpoint.requestBody = <<>>
        /\ gf.endpoint.queryParams # <<>>
        /\ gf.function.body[2]
                = <<"r","e","t","u","r","n"," ","t","h","i","s",".","c","l","i","e","n","t",".","d","e","l","e","t","e","(">> \o generatePathTemplate(UserPath)
                    \o <<","," ","u","n","d","e","f","i","n","e","d",","," ","r","e","q","O","p","t","i","o","n","s",")",";">>


-----------------------------------------------------------------------------
(* Properties of runGenerator                                              *)

\* the sources of the configuration that are not skipped, in its order
ActiveSourceNames ==
    LET active == SelectSeq(config.sources, LAMBDA s : ~s.skip)
    IN  [i \in DOMAIN active |-> active[i].source]

\* the sources named by the entries of the returned results, in their order
EntrySourceNames ==
    [k \in DOMAIN run.results.results |-> run.results.results[k].source]

\* what lies behind a source fails: nothing is generated for one of its documents
SourceFails(s) ==
    \/ s.outcome \in {"failed", "throws"}
    \/ s.stat = "missing"
    \/ s.stat = "directory" /\ \A i \in DOMAIN s.files : s.files[i] # "success"

\* C19: a failure of a source, a failed result or an exception, does not leave
\* runGenerator and does not keep the other sources from being processed: the
\* returned results have one entry for every source that is not skipped, in
\* the order of the configuration, and none for a skipped source
C19_OneEntryPerActiveSource ==
    /\ pc = "rejected" => run.called = {}
    /\ pc = "returned" =>
        /\ EntrySourceNames = ActiveSourceNames
        /\ run.called = Range(ActiveSourceNames)
        /\ \A k \in DOMAIN run.results.results :
                SourceFails(run.activeSources[k]) =>
                    \E i \in DOMAIN run.results.results[k].results :
                        ~run.results.results[k].results[i].success

\* a sequential run whose first source threw and whose second source was
\* generated has returned an entry for both
C19_Witness ==
    /\ pc = "returned"
    /\ ~config.parallel
    /\ Len(config.sources) = 2
    /\ config.sources[1].type = "url" /\ config.sources[1].outcome = "throws"
    /\ ~config.sources[1].skip /\ ~config.sources[2].skip
    /\ EntrySourceNames = <<"source1", "source2">>
    /\ run.results.results[1].results = <<FailedResult("Error")>>
    /\ run.results.results[2].results = <<SuccessfulResult>>


\* the emitted groups whose types output declares a named schema
GroupsDeclaring(name) ==
    {g \in Emitted : MapHas(modules[g].typeDefinitions, name)}

\* C20: the type declaration of a named schema is emitted once in a run, not
\* into the types output of each group
C20_NamedSchemaEmittedOnce ==
    Written =>
        \A i \in DOMAIN NamedSchemaEntries :
            Cardinality(GroupsDeclaring(NamedSchemaEntries[i].key)) <= 1


-----------------------------------------------------------------------------
(* Properties of generate called twice                                     *)

\* the second call of generate has ended
SecondDone == pc = "done" /\ previous # <<>>

-----------------------------------------------------------------------------
(* Properties of the case conversions                                      *)

\* C22: for a string of alphanumeric characters and the separators -, _ and
\* whitespace, toCamelCase(toPascalCase(x)) equals toCamelCase(x), and
\* toPascalCase is idempotent
C22_CamelOfPascalIsCamel ==
    pc = "cased" =>
        /\ names.camelOfPascal = names.camel
        /\ names.pascalOfPascal = names.pascal

\* a string with a separator between a lower-case and an upper-case word has
\* been converted: its PascalCase and camelCase differ from it and from each other
C22_Witness ==
    /\ pc = "cased"
    /\ path = <<"a", "-", "B">>
    /\ names.pascal = <<"A", "B">>
    /\ names.camelOfPascal = <<"a", "B">>


\* the part of a reference after its last slash
LastSegment(ref) ==
    LET slashes == {i \in DOMAIN ref : ref[i] = "/"}
        last == IF slashes = {} THEN 0 ELSE CHOOSE i \in slashes : \A j \in slashes : j <= i
    IN  SubSeq(ref, last + 1, Len(ref))

\* a schema is a reference to which the schema index has no entry
IsUnresolved(schema) == Truthy(schema.ref) /\ ~MapHas(schemas, schema.ref)

\* the forward-reference name of a reference
ForwardName(schema) == toPascalCase(LastSegment(schema.ref))

\* the body emitted for a schema with an unresolved reference is the
\* forward-reference name, at the top level, as the items of an array and as
\* the type of a property; it is never unknown
RendersForwardName(schema, body) ==
    /\ IsUnresolved(schema) => body = ForwardName(schema)
    /\ (~Truthy(schema.ref) /\ schema.type = t_array /\ schema.items # <<>>
            /\ IsUnresolved(schema.items[1])) =>
                body = ForwardName(schema.items[1]) \o <<"[","]">>
    /\ (~Truthy(schema.ref) /\ schema.type = t_object) =>
            \A i \in DOMAIN schema.properties[1] :
                IsUnresolved(schema.properties[1][i].schema) =>
                    /\ includes(body, schema.properties[1][i].name \o <<"?",":"," ">>
                                        \o ForwardName(schema.properties[1][i].schema))
                    /\ ~includes(body, t_unknown)

\* C23: a reference without an entry in the schema index does not fail the
\* run and is emitted as the PascalCase of its last segment, not as unknown,
\* at the top level of a request or response body and nested in one
C23_UnresolvedRendersAsName ==
    /\ (pc = "done" /\ document \in UnresolvedDocuments) => result.success
    /\ Written =>
        \A g \in Emitted :
            \A k \in DOMAIN modules[g].groupEndpoints :
                LET e == EndpointOf(modules[g].groupEndpoints[k])
                    requestSchema == RequestSchemaOf(OperationOf(e))
                    answerSchema == AnswerSchemaOf(OperationOf(e))
                IN  /\ requestSchema # <<>> =>
                            RendersForwardName(requestSchema[1],
                                MapGet(modules[g].typeDefinitions, RequestTypeNameOf(e)))
                    /\ answerSchema # <<>> =>
                            RendersForwardName(answerSchema[1],
                                MapGet(modules[g].typeDefinitions, ResponseTypeNameOf(e)))

\* a request body that is an array of references to the undefined missing-type
\* and a response that refers to it have been emitted
C23_Witness ==
    /\ Written
    /\ document \in UnresolvedDocuments
    /\ \E g \in Emitted :
        /\ MapGet(modules[g].typeDefinitions, <<"p","o","s","t","H","e","a","l","t","h","R","e","q","u","e","s","t">>) = <<"M","i","s","s","i","n","g","T","y","p","e","[","]">>
        /\ MapGet(modules[g].typeDefinitions, <<"p","o","s","t","H","e","a","l","t","h","R","e","s","p","o","n","s","e">>) = <<"M","i","s","s","i","n","g","T","y","p","e">>


-----------------------------------------------------------------------------
(* Properties of schema rendering                                          *)

\* no call is behind more than one resolved reference
AtMostOneResolution ==
    pc = "render" =>
        \A i \in DOMAIN rendering.calls : rendering.calls[i].resolutions <= 1

\* C24: rendering a schema ends, also when the named schemas refer to
\* themselves or to each other: every call of parseSchema and
\* schemaToTypeScript returns, and no call is made behind more than one
\* resolved reference
C24_RenderingTerminates ==
    /\ []AtMostOneResolution
    /\ <>(rendering.calls = <<>>)

\* a reference to Tree, which refers to itself twice, has been rendered as
\* the body of Tree with the references by name
C24_Witness ==
    /\ pc = "rendered"
    /\ Truthy(rendering.schema.ref)
    /\ result.typeName = w_Tree
    /\ result.typeDefinition = <<"{","\n"," "," ","p","a","r","e","n","t","?",":"," ","T","r","e","e",";","\n"," "," ","c","h","i","l","d","r","e","n","?",":"," ","T","r","e","e","[","]","\n","}">>


\* the positions of the run's operations at which a directory is removed
Removals == {i \in DOMAIN run.operations : run.operations[i].op = "rm"}

\* the directory is the subdirectory generatedClients of config.outputDir
IsGeneratedClientsOf(target, outputDir) ==
    /\ Len(target) = Len(outputDir) + 1
    /\ SubSeq(target, 1, Len(outputDir)) = outputDir
    /\ target[Len(target)] = "generatedClients"

\* a source of the configuration is not skipped
SomeSourceActive == \E i \in DOMAIN config.sources : ~config.sources[i].skip

\* C25: with cleanOutput set and a source that is not skipped, the directory
\* generatedClients of outputDir is removed once, and that is the first thing
\* the run does to the file system, before the directory is made and before
\* any source is processed; no other directory is ever removed; a run whose
\* sources are all skipped returns without having removed or made anything
C25_CleanedOnceBeforeProcessing ==
    pc # "run" =>
        /\ \A i \in Removals :
                IsGeneratedClientsOf(run.operations[i].target, config.outputDir)
        /\ (config.cleanOutput /\ SomeSourceActive) =>
                IF pc = "clean" THEN run.operations = <<>> ELSE Removals = {1}
        /\ ~SomeSourceActive => pc = "returned" /\ run.operations = <<>>

\* a run with cleanOutput has removed the directory, made it, processed its
\* two sources and returned
C25_Witness ==
    /\ pc = "returned"
    /\ config.cleanOutput
    /\ Len(run.operations) = 4
    /\ run.operations[1] = FsCall("rm", <<"src", "clients", "generatedClients">>)
    /\ run.operations[2].op = "mkdir"
    /\ run.operations[4].op = "processSource"


\* the number of sources of the configuration flagged skip
SkippedSources == Cardinality({i \in DOMAIN config.sources : config.sources[i].skip})

\* C26: when runGenerator returns, its counters account for every configured
\* source once: successful + failed + skipped = totalSources, and skipped is
\* the number of sources flagged skip
C26_CountersAccountForSources ==
    pc = "returned" =>
        /\ run.results.totalSources = Len(config.sources)
        /\ run.results.skipped = SkippedSources
        /\ run.results.successful + run.results.failed + run.results.skipped
                = run.results.totalSources


RECURSIVE SlotsFrom(_, _)
\* the names between ${ and } in a line of code, from index i on
SlotsFrom(line, i) ==
    IF i >= Len(line) THEN <<>>
    ELSE IF line[i] = "$" /\ line[i + 1] = "{"
    THEN LET j == IndexOfFrom(line, "}", i + 2)
         IN  IF j > i + 1
             THEN <<SubSeq(line, i + 2, j - 1)>> \o SlotsFrom(line, j + 1)
             ELSE <<>>
    ELSE SlotsFrom(line, i + 1)

\* the name that a parameter of a signature declares: what stands before its
\* question mark or colon
DeclaredName(param) ==
    LET ends == {i \in DOMAIN param : param[i] \in {"?", ":"}}
    IN  SubSeq(param, 1, (CHOOSE i \in ends : \A j \in ends : i <= j) - 1)

\* the names of the parameters of a generated function
DeclaredNames(f) == {DeclaredName(f.params[i]) : i \in DOMAIN f.params}

\* C27: every ${name} of the path template of a generated function is the
\* name of a parameter that the function declares
C27_TemplateSlotsAreParameters ==
    \A gf \in GeneratedFunctions :
        \A slot \in Range(SlotsFrom(LastLine(gf.function), 1)) :
            slot \in DeclaredNames(gf.function)


\* the types that the signature of a generated function names: the type of
\* data and the type of the response, the built-in unknown apart
SignatureTypes(f) ==
    ({SubSeq(f.params[i], 7, Len(f.params[i])) :
            i \in {k \in DOMAIN f.params : startsWith(f.params[k], <<"d","a","t","a",":"," ">>)}}
        \cup {f.responseTypeName}) \ {t_unknown}

\* the text of a types file declares the name, as an interface or as a type
DeclaresType(text, name) ==
    \/ includes(<<"\n">> \o text,
                <<"\n","e","x","p","o","r","t"," ","i","n","t","e","r","f","a","c","e"," ">> \o name \o <<" ","{">>)
    \/ includes(<<"\n">> \o text,
                <<"\n","e","x","p","o","r","t"," ","t","y","p","e"," ">> \o name \o <<" ","="," ">>)

\* the type names that the client module of a group imports or uses in a signature
UsedTypes(g) ==
    Range(modules[g].typeImports)
        \cup UNION {SignatureTypes(modules[g].functions[k]) : k \in DOMAIN modules[g].functions}

\* C28: every type name that the client module of a group imports from
\* './types' or uses in a signature is declared, under that name, in the types
\* file of the group
C28_UsedTypesDeclared ==
    Written =>
        \A g \in Emitted :
            \A name \in UsedTypes(g) :
                /\ FilesOf(modules[g])[1] = Append(modules[g].folderPath, <<"t","y","p","e","s",".","t","s">>)
                /\ DeclaresType(generateTypeDeclarations(modules[g].typeDefinitions), name)

-----------------------------------------------------------------------------
(* Properties of generate with the file system in view                     *)

\* every group of the document has been handled
Synthesized == pc = "groups" /\ Len(modules) = Len(groups)

\* C29: generate writes no file until every group has been synthesized; a
\* document whose parsing throws has none of its files written; and the files
\* are written in the order in which they were queued
C29_WritesAfterSynthesisInQueuedOrder ==
    /\ [][fileWriter'.writtenFiles # fileWriter.writtenFiles => Synthesized]_vars
    /\ [](pc = "done" /\ result.errors = <<CannotConvert>> => fileWriter.writtenFiles = <<>>)
    /\ [](Len(fileWriter.writtenFiles) <= Len(fileWriter.files)
            /\ fileWriter.writtenFiles
                    = SubSeq(fileWriter.files, 1, Len(fileWriter.writtenFiles)))

\* three of the four queued files of a document with two groups have been
\* written, after both groups were synthesized
C29_Witness ==
    /\ Synthesized
    /\ Len(groups) = 2
    /\ Len(fileWriter.files) = 4
    /\ fileWriter.writtenFiles = SubSeq(AllFiles(modules), 1, 3)

\* C30: generate, generateFromFile and generateFromUrl do not throw, and
\* their result is consistent: a failure has no files written, no folder
\* structure and at least one error message; a success has no error and lists
\* the queued files
C30_ConsistentResult ==
    /\ pc # "rejected"
    /\ pc = "done" =>
        IF result.success
        THEN /\ result.errors = <<>>
             /\ result.filesWritten = fileWriter.files
             /\ result.filesWritten = AllFiles(modules)
        ELSE /\ result.filesWritten = <<>>
             /\ result.folderStructure = <<>>
             /\ Len(result.errors) >= 1

\* a write has failed after the first file was written: the result is a
\* failure without files and with the message of the error
C30_Witness ==
    /\ pc = "done"
    /\ ~result.success
    /\ Len(fileWriter.writtenFiles) = 1
    /\ result.filesWritten = <<>>
    /\ result.errors = <<ErrorMessage("EACCES")>>

====
